---------------------------- MODULE Spec2Model ----------------------------
(***************************************************************************)
(* Form-filling engine of the browser extension: the Value Injector        *)
(* (setNativeValue), the per-field retry chain (tryFill), and the          *)
(* per-platform pass (runAutoFill) of the ATS handlers.                    *)
(*                                                                         *)
(* The specifications of this module:                                      *)
(*   SpecInject  one DOM element and the calls made on it;                 *)
(*   SpecFill    one page, one handler, its timers, chains and toasts;     *)
(*   SpecClick   SpecFill with user clicks on the page's buttons;          *)
(*   SpecFind    one document and the Field Locator's calls on it;         *)
(*   SpecStale   one retry chain on a document whose elements are          *)
(*               detached and replaced between its ticks;                  *)
(*   SpecDetect  one page location, the Platform Classifier and the        *)
(*               handlers' platform checks;                                *)
(*   SpecDropdown  one dropdown widget and the calls of the dropdown       *)
(*               driver (DropdownFiller.fill) on it;                       *)
(*   SpecDemog   one Greenhouse page and the dropdown section of its       *)
(*               passes, with the handler's click listener.                *)
(***************************************************************************)
EXTENDS Integers, Sequences, FiniteSets, TLC

VARIABLES
    el,       \* SpecInject: the element under injection
    hist,     \* SpecInject: the calls made on el so far, in order
    handler,  \* SpecFill: the handler that accepted the page
    dom,      \* SpecFill: the page's elements, by profile slot
    page,     \* SpecFill: what the page holds besides the fields (form, file input, ...)
    timers,   \* SpecFill: pending setTimeout callbacks, earliest first
    chains,   \* SpecFill: the retry chains started so far (one per located field)
    passes,   \* SpecFill: the pass chains (runAutoFill and its successors)
    clicks,   \* SpecFill: user clicks on a button so far
    doc,      \* SpecFind, SpecStale: the document's labels and elements
    found,    \* SpecFind: the latest call of the locator or of a pass's locate step
    ref,      \* SpecStale: the retry chain and the element reference it keeps
    loc,      \* SpecDetect: the page's hostname, href, DOM markers and text
    platform, \* SpecDetect: what getPlatform returned, "" before the call
    scripts,  \* SpecDetect: how far each handler's content script got
    widget,   \* SpecDropdown: the element handed to DropdownFiller.fill
    ddlog,    \* SpecDropdown: the calls of DropdownFiller.fill, in order
    demog,    \* SpecDemog: the Greenhouse page and its dropdown fields
    gruns,    \* SpecDemog: the pass chains, each with its latest runAutoFill
    gtimers,  \* SpecDemog: pending setTimeout callbacks, earliest first
    toast,    \* SpecToast: the toast element and its pending hide timers
    pop,      \* SpecPopup: the document's option elements and one popup fill
    boot,     \* SpecBoot: the Taleo content script across page loads
    up,       \* SpecUpload: the file inputs and the runs of detectAndSetup
    qs        \* SpecSolver: the QuestionSolver, its modal and the relay

vars == <<el, hist, handler, dom, page, timers, chains, passes, clicks,
          doc, found, ref, loc, platform, scripts, widget, ddlog,
          demog, gruns, gtimers, toast, pop, boot, up, qs>>
injVars == <<el, hist>>
fillVars == <<handler, dom, page, timers, chains, passes, clicks>>
findVars == <<doc, found, ref>>
detVars == <<loc, platform, scripts>>
ddVars == <<widget, ddlog>>
demogVars == <<demog, gruns, gtimers>>
toastVars == <<toast>>
popVars == <<pop>>
bootVars == <<boot>>
upVars == <<up>>
qsVars == <<qs>>
moreVars == <<popVars, bootVars, upVars, qsVars>>
uiVars == <<ddVars, demogVars, toastVars, moreVars>>
oldVars == <<injVars, fillVars, findVars, detVars, ddVars, demogVars, toastVars>>

(***************************************************************************)
(* Bounds of the model.                                                    *)
(***************************************************************************)
MaxHist == 3      \* calls recorded on the element of SpecInject
MaxClicks == 1    \* user clicks on a button

(***************************************************************************)
(* DOM element, as the injector sees it.                                   *)
(*   value    what element.value reads                                     *)
(*   own      the element's OWN property descriptor for 'value':           *)
(*            "none"     a plain element, the accessor lives on the        *)
(*                       prototype only                                    *)
(*            "same"     an own accessor whose setter is the prototype's   *)
(*            "override" an own accessor installed by the page's framework *)
(*            "getter"   an own accessor without a setter                  *)
(*   assign   what the own setter does with a direct assignment            *)
(*   fw       the framework controlling the input: "none", "react" (takes  *)
(*            the DOM value into its state on an input event), "hostile"   *)
(*            (never does); fwState is the value its next render writes    *)
(***************************************************************************)
Targets == {"x", "y"}
OldValues == {"", "o"}
OwnKinds == {"none", "same", "override", "getter"}
FwKinds == {"none", "react", "hostile"}
ExecOutcomes == {"typed", "false", "intercepted"}

AssignOf(own) ==
    CASE own = "none" -> {"honour"}
      [] own = "same" -> {"honour"}
      [] own = "override" -> {"honour", "ignore"}
      [] own = "getter" -> {"ignore"}

Elements ==
    { [value |-> v, own |-> o, assign |-> a, fw |-> f, fwState |-> v] :
        v \in OldValues, o \in OwnKinds, a \in {"honour", "ignore"}, f \in FwKinds }

WellFormed(e) == e.assign \in AssignOf(e.own)

\* element.value = v : a direct assignment goes through the own setter when
\* there is one, else through the prototype's
Assign(e, v) ==
    IF e.assign = "honour" THEN [e EXCEPT !.value = v] ELSE e

\* an input event reaches the framework's listener
OnInput(e) ==
    IF e.fw = "react" THEN [e EXCEPT !.fwState = e.value] ELSE e

\* A profile value is a string, or undefined when the profile has no such
\* key. An undefined argument of a DOMString parameter with a default is
\* the default (execCommand's value = ""); assigned to the value attribute
\* it is converted to the string "undefined".
Undefined == "<undefined>"
ArgOrDefault(v) == IF v = Undefined THEN "" ELSE v
ToDOMString(v) == IF v = Undefined THEN "undefined" ELSE v

\* document.execCommand('insertText', false, v) on the focused element
ExecCommand(e, v, exec) ==
    IF exec = "typed"
    THEN [ok |-> TRUE,
          el |-> OnInput([e EXCEPT !.value = e.value \o ArgOrDefault(v)])]
    ELSE [ok |-> (exec = "intercepted"), el |-> e]

\* Object.getOwnPropertyDescriptor(prototype, 'value').set.call(element, v)
ProtoSet(e, v) == [e EXCEPT !.value = ToDOMString(v)]

IsEvent(s) == s \in {"input", "change", "blur"}
EventsOf(steps) == SelectSeq(steps, IsEvent)
Count(steps, s) == Len(SelectSeq(steps, LAMBDA t : t = s))


(***************************************************************************)
(* The Value Injector of the handlers: setNativeValue(element, value).     *)
(* exec is what the browser and the page do with the insert-text command   *)
(* in this call. The result is the element after the call, the steps the   *)
(* call performed, and whether it ended by throwing.                       *)
(***************************************************************************)
NeedsFallback_NoCompare(ok, cur, v) == ~ok

\* if (!success || element.value !== value)
NeedsFallback(ok, cur, v) == ~ok \/ cur # v

FallbackSet_OwnSetter(e, v) ==
    [el |-> Assign(e, v), steps |-> <<"ownSetter">>, threw |-> FALSE]

\* the setter lookup and call of the fallback:
\*   valueSetter = Object.getOwnPropertyDescriptor(element, 'value').set
\*   prototypeValueSetter = Object.getOwnPropertyDescriptor(prototype, 'value').set
\*   if (valueSetter && valueSetter !== prototypeValueSetter)
\*        prototypeValueSetter.call(element, value)
\*   else valueSetter.call(element, value)
\* The descriptor of a plain element is undefined and reading .set of it
\* throws a TypeError; so does calling an undefined valueSetter.
FallbackSet(e, v) ==
    CASE e.own = "none" ->
            [el |-> e, steps |-> <<>>, threw |-> TRUE]
      [] e.own = "override" ->
            [el |-> ProtoSet(e, v), steps |-> <<"protoSetter">>, threw |-> FALSE]
      [] e.own = "same" ->
            [el |-> ProtoSet(e, v), steps |-> <<"protoSetter">>, threw |-> FALSE]
      [] e.own = "getter" ->
            [el |-> e, steps |-> <<>>, threw |-> TRUE]

NoBlur == <<>>

\* element.dispatchEvent(new Event('blur', { bubbles: true }))
FinalBlur == <<"blur">>

setNativeValue(e, v, exec) ==
    LET e1 == Assign(e, "")
        c == ExecCommand(e1, v, exec)
        pre == <<"focus", "clear", "insertText">>
    IN  IF ~NeedsFallback(c.ok, c.el.value, v)
        THEN [el |-> c.el, steps |-> pre \o FinalBlur, threw |-> FALSE,
              fallback |-> FALSE]
        ELSE LET f == FallbackSet(c.el, v)
             IN  IF f.threw
                 THEN [el |-> f.el, steps |-> pre, threw |-> TRUE,
                       fallback |-> TRUE]
                 ELSE [el |-> OnInput(f.el),
                       steps |-> pre \o f.steps \o <<"input", "change">> \o FinalBlur,
                       threw |-> FALSE, fallback |-> TRUE]

(***************************************************************************)
(* DropdownFiller.setNativeValue(element, value): the same setter lookup   *)
(* with optional chaining, used on the filter input of a popup widget.     *)
(***************************************************************************)
DFsetNativeValue(e, v) ==
    LET set == CASE e.own = "override" -> ProtoSet(e, v)
                 [] e.own = "same" -> ProtoSet(e, v)
                 [] OTHER -> e
        did == IF e.own \in {"override", "same"} THEN <<"protoSetter">> ELSE <<>>
    IN  [el |-> OnInput(set), steps |-> did \o <<"input", "change">>,
         threw |-> FALSE, fallback |-> TRUE]

(***************************************************************************)
(* SpecInject: calls on one element.                                       *)
(***************************************************************************)
Call(op, v, exec, r) ==
    [op |-> op, target |-> v, exec |-> exec, before |-> el, after |-> r.el,
     steps |-> r.steps, threw |-> r.threw, fallback |-> r.fallback]

Inject(v, exec) ==
    /\ Len(hist) < MaxHist
    /\ LET r == setNativeValue(el, v, exec)
       IN  /\ el' = r.el
           /\ hist' = Append(hist, Call("inject", v, exec, r))
    /\ UNCHANGED <<fillVars, findVars, detVars, uiVars>>

DFSet(v) ==
    /\ Len(hist) < MaxHist
    /\ LET r == DFsetNativeValue(el, v)
       IN  /\ el' = r.el
           /\ hist' = Append(hist, Call("dfset", v, "none", r))
    /\ UNCHANGED <<fillVars, findVars, detVars, uiVars>>

\* the framework's next render writes its state back into the input
Render ==
    /\ Len(hist) < MaxHist
    /\ el.fw # "none"
    /\ el.value # el.fwState
    /\ LET e2 == [el EXCEPT !.value = el.fwState]
       IN  /\ el' = e2
           /\ hist' = Append(hist, Call("render", el.fwState, "none",
                          [el |-> e2, steps |-> <<>>, threw |-> FALSE,
                           fallback |-> FALSE]))
    /\ UNCHANGED <<fillVars, findVars, detVars, uiVars>>

FillIdle ==
    /\ handler = "none"
    /\ dom = <<>>
    /\ page = [form |-> FALSE, file |-> FALSE, loginWall |-> FALSE, dd |-> "none"]
    /\ timers = <<>>
    /\ chains = <<>>
    /\ passes = <<>>
    /\ clicks = 0

\* no document under the locator, no page under the classifier
FindIdle ==
    /\ doc = [labels |-> <<>>, elements |-> <<>>]
    /\ found = [op |-> "none"]
    /\ ref = [state |-> "none"]

DetectIdle ==
    /\ loc = [hostname |-> <<>>, href |-> <<>>, markers |-> {}, text |-> <<>>]
    /\ platform = ""
    /\ scripts = [h \in {"greenhouse", "lever", "taleo", "smartrecruiters",
                          "ashby", "generic"} |-> "pending"]

\* no widget under the dropdown driver
DropdownIdle ==
    /\ widget = [tag |-> "none"]
    /\ ddlog = <<>>

\* no Greenhouse page under the dropdown section of the pass
DemogIdle ==
    /\ demog = [form |-> FALSE]
    /\ gruns = <<>>
    /\ gtimers = <<>>

\* no toast element in the document
ToastIdle ==
    toast = [exists |-> FALSE, message |-> 0, type |-> "none", opacity |-> 0,
             hiddenBy |-> 0, calls |-> 0, timers |-> <<>>]

\* no popup fill called
PopIdle == pop = [kind |-> "none"]

\* no Taleo content script loaded
BootIdle == boot = [script |-> "none"]

\* no uploader on the page
UpIdle == up = [inputs |-> <<>>, runs |-> <<>>]

\* no QuestionSolver on the page
QsIdle == qs = [areas |-> <<>>, reqs |-> <<>>, runs |-> <<>>]

MoreIdle == PopIdle /\ BootIdle /\ UpIdle /\ QsIdle

UiIdle == DropdownIdle /\ DemogIdle /\ ToastIdle /\ MoreIdle

InjInit ==
    /\ el \in {e \in Elements : WellFormed(e)}
    /\ hist = <<>>
    /\ FillIdle
    /\ FindIdle
    /\ DetectIdle
    /\ UiIdle

InjNext ==
    \/ \E v \in Targets, exec \in ExecOutcomes : Inject(v, exec)
    \/ \E v \in Targets : DFSet(v)
    \/ Render

SpecInject == InjInit /\ [][InjNext]_vars

(***************************************************************************)
(* Properties of the Value Injector.                                       *)
(***************************************************************************)
Returned(i) == hist[i].op = "inject" /\ ~hist[i].threw

TookFallback(i) == hist[i].op \in {"inject", "dfset"} /\ hist[i].fallback

C2_FallbackNeverThrows ==
    \A i \in DOMAIN hist :
        TookFallback(i) =>
            /\ ~hist[i].threw
            /\ Count(hist[i].steps, "protoSetter") = 1
            /\ hist[i].after.value = hist[i].target
            /\ Count(hist[i].steps, "input") = 1
            /\ Count(hist[i].steps, "change") = 1

\* C3: on a React-style input (own setter ignores direct assignment, the
\* prototype setter plus an input event is honoured) where the command does
\* not produce the target, the injection takes the fallback path in the
\* order prototype setter, input, change, blur, and the value is the target
\* at return and after the framework's next render.
ReactStyle(e) == e.own = "override" /\ e.assign = "ignore" /\ e.fw = "react"

C3_ReactRevertDefense ==
    \A i \in DOMAIN hist :
        (hist[i].op = "inject" /\ ReactStyle(hist[i].before) /\ hist[i].fallback) =>
            /\ ~hist[i].threw
            /\ hist[i].steps = <<"focus", "clear", "insertText", "protoSetter",
                                 "input", "change", "blur">>
            /\ hist[i].after.value = hist[i].target
            /\ hist[i].after.fwState = hist[i].target
            /\ (i + 1 \in DOMAIN hist /\ hist[i+1].op = "render") =>
                   hist[i+1].after.value = hist[i].target

C3_Witness ==
    \E i \in DOMAIN hist :
        /\ hist[i].op = "inject"
        /\ ReactStyle(hist[i].before)
        /\ hist[i].before.value = "o"
        /\ hist[i].exec = "false"
        /\ hist[i].fallback
        /\ el.value = hist[i].target

\* C4: two injections in succession with the same value.
Twice(i) ==
    /\ i \in DOMAIN hist /\ i + 1 \in DOMAIN hist
    /\ Returned(i) /\ Returned(i + 1)
    /\ hist[i].target = hist[i+1].target

Handlers == {"greenhouse", "lever", "taleo", "smartrecruiters", "ashby", "generic"}

MAX_ATTEMPTS_Greenhouse == 20
MAX_ATTEMPTS_Lever == 20
MAX_ATTEMPTS_Taleo == 20
MAX_ATTEMPTS_Ashby == 20
MAX_ATTEMPTS_SmartRecruiters == 30
MAX_ATTEMPTS_Generic == 10

MAX_ATTEMPTS(h) ==
    CASE h = "greenhouse" -> MAX_ATTEMPTS_Greenhouse
      [] h = "lever" -> MAX_ATTEMPTS_Lever
      [] h = "taleo" -> MAX_ATTEMPTS_Taleo
      [] h = "ashby" -> MAX_ATTEMPTS_Ashby
      [] h = "smartrecruiters" -> MAX_ATTEMPTS_SmartRecruiters
      [] h = "generic" -> MAX_ATTEMPTS_Generic

\* tryFill(5) in the ATS handlers, tryFill(3) in the generic handler
RetryBudget_ATS == 5
RetryBudget_Generic == 3
RetryBudget(h) == IF h = "generic" THEN RetryBudget_Generic ELSE RetryBudget_ATS

\* setTimeout delays, in milliseconds
RetryDelay == 500
PollDelay == 500
GenericRepollDelay == 1000
LateStartDelay == 1000
ClickDelay_Default == 1000
ClickDelay_SmartRecruiters == 1500
ClickDelay_Taleo == 2000
PopupOpenWait == 500
PopupFilterWait == 300

\* the delay of the first runAutoFill: called directly, or through setTimeout
StartDelay(h) ==
    IF h \in {"smartrecruiters", "generic"} THEN LateStartDelay ELSE 0

\* the delay after which a pass that counted nothing is run again
RepollDelay(h) == IF h = "generic" THEN GenericRepollDelay ELSE PollDelay

ClickDelay(h) ==
    CASE h = "smartrecruiters" -> ClickDelay_SmartRecruiters
      [] h = "taleo" -> ClickDelay_Taleo
      [] OTHER -> ClickDelay_Default

\* the generic handler installs no click listener
HasClickListener(h) == h # "generic"

\* the handlers that end a pass chain with the warning toast
HasFailureToast(h) == h \in {"greenhouse", "ashby"}

F(slot, counted) == [slot |-> slot, counted |-> counted]

\* the fields of a pass in their declared order; counted: the call is
\* wrapped in  if (fillField(...)) filledCount++
Fields(h) ==
    CASE h = "greenhouse" ->
            << F("firstName", TRUE), F("lastName", TRUE), F("email", TRUE),
               F("phone", TRUE), F("linkedin", TRUE),
               F("portfolio", FALSE), F("github", FALSE),
               F("city", TRUE), F("state", TRUE), F("zip", TRUE),
               F("location", TRUE),
               F("school", FALSE), F("degree", FALSE), F("major", FALSE),
               F("yearsExperience", FALSE), F("startDate", FALSE) >>
      [] h \in {"lever", "taleo", "ashby"} ->
            << F("fullName", TRUE), F("firstName", TRUE), F("lastName", TRUE),
               F("email", TRUE), F("phone", TRUE), F("linkedin", TRUE),
               F("github", TRUE), F("portfolio", TRUE) >>
      [] h = "smartrecruiters" ->
            << F("firstName", TRUE), F("lastName", TRUE), F("email", TRUE),
               F("phone", TRUE), F("linkedin", TRUE), F("github", TRUE),
               F("portfolio", TRUE), F("cityState", TRUE) >>
      [] h = "generic" ->
            << F("fullName", TRUE), F("firstName", TRUE), F("lastName", TRUE),
               F("email", TRUE), F("phone", TRUE), F("city", TRUE),
               F("zip", TRUE), F("linkedin", TRUE), F("github", TRUE),
               F("portfolio", TRUE) >>

\* UserProfile: the value of each slot. The profile has no portfolio key, so
\* Profile.portfolio is undefined.
Profile(slot) ==
    CASE slot = "email" -> "nuthanreddy001@gmail.com"
      [] slot = "github" -> "http://github.com/Nuthanreddy05"
      [] slot = "portfolio" -> Undefined
      [] OTHER -> slot

(***************************************************************************)
(* The page. At most one element per slot; the slots that may have one are *)
(* PageSlots. dom[s].present: the element is attached to the document.     *)
(***************************************************************************)
PageSlots == {"email", "github", "portfolio"}

Plain == [value |-> "", own |-> "none", assign |-> "honour", fw |-> "none", fwState |-> ""]
React == [value |-> "", own |-> "override", assign |-> "honour", fw |-> "react", fwState |-> ""]
Hostile == [value |-> "", own |-> "override", assign |-> "ignore", fw |-> "hostile", fwState |-> ""]
FieldKinds == {Plain, React, Hostile}

Absent == [present |-> FALSE, e |-> Plain, safe |-> FALSE]

DomStates ==
    [PageSlots -> {Absent} \cup {[present |-> TRUE, e |-> k, safe |-> FALSE] : k \in FieldKinds}]

\* document.querySelectorAll('input').length
InputCount(d, pg) ==
    Cardinality({s \in PageSlots : d[s].present}) + (IF pg.file THEN 1 ELSE 0)

\* the readiness check at the head of runAutoFill
Ready(h, d, pg) ==
    CASE h = "greenhouse" -> pg.form
      [] h = "lever" -> pg.form /\ InputCount(d, pg) >= 2
      [] h = "taleo" -> InputCount(d, pg) >= 2
      [] h = "smartrecruiters" -> pg.form \/ InputCount(d, pg) >= 3
      [] h = "ashby" -> InputCount(d, pg) # 0
      [] h = "generic" -> InputCount(d, pg) >= 2

\* the handler's direct selectors, then FieldFinder.findField(keywords, 'input')
Locate(d, slot) == slot \in PageSlots /\ d[slot].present

(***************************************************************************)
(* Timers: the pending setTimeout callbacks, earliest deadline first, in   *)
(* the order of their setTimeout calls among equal deadlines. due is the   *)
(* time left, in milliseconds.                                             *)
(*   kind "pass"    runAutoFill(a) of pass chain b                         *)
(*   kind "tick"    tryFill(b) of retry chain a                            *)
(*   kind "resume"  the rest of the Greenhouse pass a of pass chain b      *)
(*                  after its awaited dropdown fill, filledCount c so far  *)
(***************************************************************************)
Timer(due, kind, a, b, c) == [due |-> due, kind |-> kind, a |-> a, b |-> b, c |-> c]

SetTimeout(ts, t) ==
    LET k == Cardinality({i \in DOMAIN ts : ts[i].due <= t.due})
    IN  SubSeq(ts, 1, k) \o <<t>> \o SubSeq(ts, k + 1, Len(ts))

\* the timers left when the first one fires
Elapse(ts) ==
    [i \in 1..(Len(ts) - 1) |-> [ts[i + 1] EXCEPT !.due = @ - ts[1].due]]

(***************************************************************************)
(* tryFill(retries) of retry chain c. st carries the page and the timers   *)
(* through the synchronous run; ex[slot] is what the insert-text command   *)
(* does on that slot's element in this run.                                *)
(***************************************************************************)
Chain(slot, pc, attempt, budget) ==
    [slot |-> slot, pc |-> pc, attempt |-> attempt, budget |-> budget,
     ticks |-> 0, calls |-> 0, marks |-> 0, state |-> "running"]

TickReschedule_Same(ts, c, retries) ==
    IF retries > 0 THEN SetTimeout(ts, Timer(RetryDelay, "tick", c, retries, 0)) ELSE ts

\* if (retries > 0) setTimeout(() => tryFill(retries - 1), 500)
TickReschedule(ts, c, retries) ==
    IF retries > 0 THEN SetTimeout(ts, Timer(RetryDelay, "tick", c, retries - 1, 0)) ELSE ts

\* VF.markSafe(currentField) right after setNativeValue(currentField, value)
MarkAfterInject(elem) == [elem EXCEPT !.safe = TRUE]

tryFill(st0, c, retries, ex) ==
    LET st == [st0 EXCEPT !.chains[c].ticks = @ + 1]
        ch == st.chains[c]
        slot == ch.slot
        value == Profile(slot)
    IN  IF ~Locate(st.dom, slot)
        THEN \* currentField is null
             [st EXCEPT !.timers = TickReschedule(@, c, retries),
                        !.chains[c].state = IF retries > 0 THEN "running" ELSE "lost"]
        ELSE IF st.dom[slot].e.value = value
        THEN [st EXCEPT !.dom[slot].safe = TRUE,
                        !.chains[c].marks = @ + 1,
                        !.chains[c].state = "confirmed"]
        ELSE LET r == setNativeValue(st.dom[slot].e, value, ex[slot])
             IN  IF r.threw
                 THEN [st EXCEPT !.dom[slot].e = r.el,
                                 !.chains[c].calls = @ + 1,
                                 !.chains[c].state = "threw",
                                 !.threw = TRUE]
                 ELSE [st EXCEPT !.dom[slot] = MarkAfterInject([@ EXCEPT !.e = r.el]),
                                 !.chains[c].calls = @ + 1,
                                 !.chains[c].marks = @ + 1,
                                 !.chains[c].state =
                                     IF retries > 0 THEN "running" ELSE "exhausted",
                                 !.timers = TickReschedule(@, c, retries)]

(***************************************************************************)
(* fillField(keywords, value) for one declared field, and the run over the *)
(* declared fields. An exception leaves the run at once.                   *)
(***************************************************************************)
fillField(st, f, pc, attempt, ex) ==
    IF ~Locate(st.dom, f.slot)
    THEN [st EXCEPT !.attempted = @ \cup {f.slot}]
    ELSE LET c == Len(st.chains) + 1
             st1 == [st EXCEPT !.chains = Append(@, Chain(f.slot, pc, attempt, RetryBudget(handler))),
                               !.attempted = @ \cup {f.slot},
                               !.located = @ \cup {f.slot}]
             st2 == tryFill(st1, c, RetryBudget(handler), ex)
         IN  IF st2.threw THEN st2
             ELSE [st2 EXCEPT !.filled = @ + (IF f.counted THEN 1 ELSE 0)]

RECURSIVE FillFrom_Blocking(_, _, _, _, _, _)
FillFrom_Blocking(st, fields, i, pc, attempt, ex) ==
    IF \/ i > Len(fields)
       \/ st.threw
       \/ \E c \in DOMAIN st.chains :
             /\ st.chains[c].pc = pc /\ st.chains[c].attempt = attempt
             /\ st.chains[c].state = "running"
    THEN st
    ELSE FillFrom_Blocking(fillField(st, fields[i], pc, attempt, ex),
                           fields, i + 1, pc, attempt, ex)

RECURSIVE FillFrom(_, _, _, _, _, _)
FillFrom(st, fields, i, pc, attempt, ex) ==
    IF i > Len(fields) \/ st.threw THEN st
    ELSE FillFrom(fillField(st, fields[i], pc, attempt, ex), fields, i + 1, pc, attempt, ex)


\* a controlled input whose framework has not yet rendered its state back.
\* The render tick of a framework comes within a frame, long before the
\* next timer of the handler (300 ms and more) fires.
RenderPending(slot) ==
    /\ dom[slot].present
    /\ dom[slot].e.fw # "none"
    /\ dom[slot].e.value # dom[slot].e.fwState

Settled == \A slot \in PageSlots : ~RenderPending(slot)

(***************************************************************************)
(* runAutoFill(attempt) of pass chain pc. passes[pc] is the record of the  *)
(* chain's latest invocation:                                              *)
(*   runs       invocations of the chain so far                            *)
(*   status     "scheduled"  no invocation yet                             *)
(*              "loginwall"  stopped at the login wall                     *)
(*              "polling"    left at the readiness check                   *)
(*              "threw"      left by an exception                          *)
(*              "suspended"  awaiting a dropdown fill                      *)
(*              "decided"    reached the decision at its end               *)
(*   toasts     the toasts it showed, in order                             *)
(*   ever       the slots located in any invocation of the chain           *)
(***************************************************************************)
NewPass ==
    [runs |-> 0, attempt |-> 0, status |-> "scheduled", filled |-> 0,
     located |-> {}, attempted |-> {}, flagged |-> FALSE, toasts |-> <<>>,
     ever |-> {}]

ShouldRepoll_OneMore(filled, attempt, h) == filled = 0 /\ attempt <= MAX_ATTEMPTS(h)

\* else if (attempt < MAX_ATTEMPTS) setTimeout(() => runAutoFill(attempt + 1), ...)
ShouldRepoll(filled, attempt, h) == filled = 0 /\ attempt < MAX_ATTEMPTS(h)

\* the decision at the end of a pass: success toast, another pass, or the
\* end of the chain (with the warning toast in Greenhouse and Ashby)
Decide(ts, rec, filled, attempt, pc) ==
    IF filled > 0
    THEN [timers |-> ts,
          rec |-> [rec EXCEPT !.status = "decided", !.filled = filled,
                              !.toasts = Append(@, "success")]]
    ELSE IF ShouldRepoll(filled, attempt, handler)
    THEN [timers |-> SetTimeout(ts, Timer(RepollDelay(handler), "pass", attempt + 1, pc, 0)),
          rec |-> [rec EXCEPT !.status = "decided", !.filled = filled]]
    ELSE [timers |-> ts,
          rec |-> [rec EXCEPT !.status = "decided", !.filled = filled,
                              !.toasts = IF HasFailureToast(handler)
                                         THEN Append(@, "failure") ELSE @]]

\* the resume section (markUnsafe on the file input's parent), then the decision
Finish(ts, rec, filled, attempt, pc) ==
    Decide(ts, [rec EXCEPT !.flagged = page.file], filled, attempt, pc)

RunAutoFill ==
    /\ Settled
    /\ timers # <<>>
    /\ timers[1].kind = "pass"
    /\ LET attempt == timers[1].a
           pc == timers[1].b
           ts == Elapse(timers)
           wall == handler = "taleo" /\ page.loginWall
           rec0 == [passes[pc] EXCEPT !.runs = @ + 1, !.attempt = attempt,
                                      !.filled = 0, !.located = {},
                                      !.attempted = {}, !.flagged = FALSE,
                                      !.toasts = IF wall THEN <<"login">> ELSE <<>>]
       IN  IF wall /\ attempt = 1
           THEN \* if (detectLoginWall() && attempt === 1) return
                /\ timers' = ts
                /\ passes' = [passes EXCEPT ![pc] = [rec0 EXCEPT !.status = "loginwall"]]
                /\ UNCHANGED <<dom, chains>>
           ELSE IF ~Ready(handler, dom, page) /\ attempt < MAX_ATTEMPTS(handler)
           THEN /\ timers' = SetTimeout(ts, Timer(PollDelay, "pass", attempt + 1, pc, 0))
                /\ passes' = [passes EXCEPT ![pc] = [rec0 EXCEPT !.status = "polling"]]
                /\ UNCHANGED <<dom, chains>>
           ELSE \E ex \in [PageSlots -> ExecOutcomes] :
                LET st0 == [dom |-> dom, chains |-> chains, timers |-> ts,
                            filled |-> 0, located |-> {}, attempted |-> {},
                            threw |-> FALSE]
                    st == FillFrom(st0, Fields(handler), 1, pc, attempt, ex)
                    rec1 == [rec0 EXCEPT !.located = st.located,
                                         !.attempted = st.attempted,
                                         !.filled = st.filled,
                                         !.ever = @ \cup st.located]
                IN  /\ dom' = st.dom
                    /\ chains' = st.chains
                    /\ IF st.threw
                       THEN /\ timers' = st.timers
                            /\ passes' = [passes EXCEPT ![pc] = [rec1 EXCEPT !.status = "threw"]]
                       ELSE IF handler = "greenhouse" /\ page.dd # "none"
                       THEN \* await DF.fill(genderField, Profile.gender)
                            /\ timers' = SetTimeout(st.timers,
                                   Timer(PopupOpenWait + PopupFilterWait, "resume",
                                         attempt, pc, st.filled))
                            /\ passes' = [passes EXCEPT ![pc] = [rec1 EXCEPT !.status = "suspended"]]
                       ELSE LET d == Finish(st.timers, rec1, st.filled, attempt, pc)
                            IN  /\ timers' = d.timers
                                /\ passes' = [passes EXCEPT ![pc] = d.rec]
    /\ UNCHANGED <<handler, page, clicks, injVars, findVars, detVars, uiVars>>

\* the Greenhouse pass continues after the awaited dropdown fill:
\*   if (await DF.fill(genderField, Profile.gender)) { filledCount++; ... }
Resume ==
    /\ Settled
    /\ timers # <<>>
    /\ timers[1].kind = "resume"
    /\ LET attempt == timers[1].a
           pc == timers[1].b
           filled == timers[1].c + (IF page.dd = "ok" THEN 1 ELSE 0)
           d == Finish(Elapse(timers), passes[pc], filled, attempt, pc)
       IN  /\ timers' = d.timers
           /\ passes' = [passes EXCEPT ![pc] = d.rec]
    /\ UNCHANGED <<handler, dom, page, chains, clicks, injVars, findVars, detVars, uiVars>>

\* a retry timer fires: tryFill(retries) of chain c
Tick ==
    /\ Settled
    /\ timers # <<>>
    /\ timers[1].kind = "tick"
    /\ \E exec \in ExecOutcomes :
        LET c == timers[1].a
            st0 == [dom |-> dom, chains |-> chains, timers |-> Elapse(timers),
                    filled |-> 0, located |-> {}, attempted |-> {}, threw |-> FALSE]
            st == tryFill(st0, c, timers[1].b, [s \in PageSlots |-> exec])
        IN  /\ dom' = st.dom
            /\ chains' = st.chains
            /\ timers' = st.timers
    /\ UNCHANGED <<handler, page, passes, clicks, injVars, findVars, detVars, uiVars>>

\* the framework's next render writes its state back into a controlled input
RenderField(slot) ==
    /\ RenderPending(slot)
    /\ dom' = [dom EXCEPT ![slot].e.value = dom[slot].e.fwState]
    /\ UNCHANGED <<handler, page, timers, chains, passes, clicks, injVars, findVars, detVars, uiVars>>

\* the user clicks a button: the click listener schedules runAutoFill(1)
Click ==
    /\ handler # "none"
    /\ clicks < MaxClicks
    /\ clicks' = clicks + 1
    /\ IF HasClickListener(handler)
       THEN /\ timers' = SetTimeout(timers,
                   Timer(ClickDelay(handler), "pass", 1, Len(passes) + 1, 0))
            /\ passes' = Append(passes, NewPass)
       ELSE UNCHANGED <<timers, passes>>
    /\ UNCHANGED <<handler, dom, page, chains, injVars, findVars, detVars, uiVars>>

Pages(h) ==
    { pg \in [form : BOOLEAN, file : BOOLEAN, loginWall : BOOLEAN,
              dd : {"none", "ok", "fail"}] :
        /\ (pg.loginWall => h = "taleo")
        /\ (pg.dd # "none" => h = "greenhouse") }

FillInit ==
    /\ handler \in Handlers
    /\ dom \in DomStates
    /\ page \in Pages(handler)
    /\ timers = <<Timer(StartDelay(handler), "pass", 1, 1, 0)>>
    /\ chains = <<>>
    /\ passes = <<NewPass>>
    /\ clicks = 0
    /\ el = Plain
    /\ hist = <<>>
    /\ FindIdle
    /\ DetectIdle
    /\ UiIdle

FillNext ==
    \/ RunAutoFill
    \/ Resume
    \/ Tick
    \/ \E slot \in PageSlots : RenderField(slot)

\* the page with no user click after load
SpecFill == FillInit /\ [][FillNext]_vars

\* the page with user clicks
ClickNext == FillNext \/ Click

\* a page with at most the email field
ClickInit ==
    /\ FillInit
    /\ \A slot \in PageSlots \ {"email"} : dom[slot] = Absent

SpecClick == ClickInit /\ [][ClickNext]_vars

(***************************************************************************)
(* The user types into a located field between the handler's callbacks.    *)
(* Typing is trusted input: the element takes the text and the framework's *)
(* input listener sees it.                                                 *)
(***************************************************************************)
UserValue == "u"

UserEdit(slot) ==
    /\ handler # "none"
    /\ dom[slot].present
    /\ dom[slot].e.value # UserValue
    /\ dom' = [dom EXCEPT ![slot].e = OnInput([@ EXCEPT !.value = UserValue])]
    /\ UNCHANGED <<handler, page, timers, chains, passes, clicks, injVars, findVars, detVars, uiVars>>

EditNext ==
    \/ RunAutoFill
    \/ Tick
    \/ \E slot \in PageSlots : RenderField(slot)
    \/ Click
    \/ \E slot \in PageSlots : UserEdit(slot)

\* the Ashby page with at most the email field
EditInit == ClickInit /\ handler = "ashby"

\* the page with user clicks and user typing
SpecEdit == EditInit /\ [][EditNext]_vars

(***************************************************************************)
(* The Taleo page shows its login form after the content script started:   *)
(* from then on document.body.innerText holds a login keyword. The page    *)
(* has at most three text inputs, so hasInputs (more than 3) is false and  *)
(* detectLoginWall returns hasLoginText.                                   *)
(***************************************************************************)
ShowLoginForm ==
    /\ handler = "taleo"
    /\ ~page.loginWall
    /\ page' = [page EXCEPT !.loginWall = TRUE]
    /\ UNCHANGED <<handler, dom, timers, chains, passes, clicks, injVars, findVars, detVars, uiVars>>

WallInit == FillInit /\ handler = "taleo"

WallNext ==
    \/ RunAutoFill
    \/ Tick
    \/ \E slot \in PageSlots : RenderField(slot)
    \/ ShowLoginForm

\* the Taleo page, with a login form that may appear late
SpecWall == WallInit /\ [][WallNext]_vars


(***************************************************************************)
(* Properties of the retry chain and of the pass.                          *)
(***************************************************************************)
PendingTicks(c) == {i \in DOMAIN timers : timers[i].kind = "tick" /\ timers[i].a = c}
PendingPasses(pc) == {i \in DOMAIN timers : timers[i].kind = "pass" /\ timers[i].b = pc}
PendingResumes(pc) == {i \in DOMAIN timers : timers[i].kind = "resume" /\ timers[i].b = pc}
Finished(c) == chains[c].state # "running"
HoldsTarget(slot) == dom[slot].e.value = Profile(slot)

\* C5: a retry chain started with budget N (5 in the ATS handlers, 3 in the
\* generic handler) invokes the injector at most N+1 times, each
\* rescheduling passes on a budget one smaller than the tick that made it,
\* and a chain that has ended has no timer pending.
C5_RetryChainBounded ==
    \A c \in DOMAIN chains :
        LET ch == chains[c]
        IN  /\ ch.budget = (IF handler = "generic" THEN 3 ELSE 5)
            /\ ch.calls <= ch.budget + 1
            /\ ch.ticks >= 1 /\ ch.calls <= ch.ticks /\ ch.ticks <= ch.budget + 1
            /\ Cardinality(PendingTicks(c)) <= 1
            /\ \A i \in PendingTicks(c) :
                   /\ timers[i].b = ch.budget - ch.ticks
                   /\ timers[i].b >= 0
            /\ (Finished(c) <=> PendingTicks(c) = {})

\* a chain on a field whose value is reverted after every injection has
\* spent its budget: N+1 injections, no timer left
C5_Witness ==
    \E c \in DOMAIN chains :
        /\ dom[chains[c].slot].e.fw = "hostile"
        /\ chains[c].calls = chains[c].budget + 1
        /\ chains[c].state = "exhausted"
        /\ PendingTicks(c) = {}
        /\ ~HoldsTarget(chains[c].slot)

\* C6 (as claimed): a field whose value does not equal the target when the
\* retry budget has run out was never marked safe by that chain.
C6_ExhaustedNeverMarkedSafe ==
    \A c \in DOMAIN chains :
        (/\ chains[c].state = "exhausted"
         /\ Profile(chains[c].slot) # Undefined
         /\ Settled
         /\ ~HoldsTarget(chains[c].slot))
            => (chains[c].marks = 0 /\ ~dom[chains[c].slot].safe)

\* C7 (as claimed): a pass shows the success toast only if a field of that
\* pass reached Confirmed; read at the latest moment the claim allows, when
\* every retry chain of the pass has ended, and on passes whose count owes
\* nothing to a dropdown: text fields with a defined profile value were
\* located and no dropdown exists.
ChainsOf(pc, attempt) ==
    {c \in DOMAIN chains : chains[c].pc = pc /\ chains[c].attempt = attempt}

ShowedSuccess(pc) ==
    \E i \in DOMAIN passes[pc].toasts : passes[pc].toasts[i] = "success"

ShowedFailure(pc) ==
    \E i \in DOMAIN passes[pc].toasts : passes[pc].toasts[i] = "failure"

C7_SuccessOnlyIfConfirmed ==
    \A pc \in DOMAIN passes :
        (/\ ShowedSuccess(pc)
         /\ page.dd = "none"
         /\ passes[pc].located # {}
         /\ \A s \in passes[pc].located : Profile(s) # Undefined
         /\ \A c \in ChainsOf(pc, passes[pc].attempt) : Finished(c))
            => \E c \in ChainsOf(pc, passes[pc].attempt) : chains[c].state = "confirmed"

\* C8: every runAutoFill invocation schedules at most one successor, with
\* attempt+1, only below MAX_ATTEMPTS and only when it counted no field; a
\* pass chain runs at most MAX_ATTEMPTS invocations (20, 30 for
\* SmartRecruiters, 10 for the generic handler); an invocation that showed
\* the success toast schedules none.
ClaimedMax ==
    CASE handler = "smartrecruiters" -> 30
      [] handler = "generic" -> 10
      [] OTHER -> 20

C8_PassChainBounded ==
    \A pc \in DOMAIN passes :
        LET p == passes[pc]
        IN  /\ p.runs = p.attempt
            /\ p.runs <= ClaimedMax
            /\ Cardinality(PendingPasses(pc)) + Cardinality(PendingResumes(pc)) <= 1
            /\ \A i \in PendingPasses(pc) :
                   /\ timers[i].a = p.attempt + 1
                   /\ p.runs >= 1 =>
                        /\ p.attempt < ClaimedMax
                        /\ p.filled = 0
                        /\ p.status \in {"polling", "decided"}
            /\ ShowedSuccess(pc) =>
                   (PendingPasses(pc) = {} /\ PendingResumes(pc) = {})
            /\ p.status \in {"threw", "loginwall"} => PendingPasses(pc) = {}

\* the SmartRecruiters chain ran all of its 30 invocations and stopped
C8_Witness ==
    /\ handler = "smartrecruiters"
    /\ passes[1].runs = 30
    /\ passes[1].status = "decided"
    /\ timers = <<>>

\* C9 (as claimed): the Greenhouse chain ends with the failure toast only
\* if no field at all was located during the chain.
C9_FailureOnlyIfNothingLocated ==
    \A pc \in DOMAIN passes :
        (handler = "greenhouse" /\ ShowedFailure(pc)) => passes[pc].ever = {}

\* C10 (as claimed): an invocation that got to its fields attempted every
\* declared field and reached its resume flagging and its decision, also
\* when a field threw.
DeclaredSlots == {Fields(handler)[i].slot : i \in DOMAIN Fields(handler)}

C10_ExceptionContained ==
    \A pc \in DOMAIN passes :
        passes[pc].status \in {"threw", "suspended", "decided"} =>
            /\ passes[pc].attempted = DeclaredSlots
            /\ passes[pc].status # "threw"


(***************************************************************************)
(* The document, as the Field Locator and the handlers' selectors see it.  *)
(* Texts are sequences of characters, so that substring containment and    *)
(* case folding are computed. An attribute that is absent reads <<>>.      *)
(*   labels    the <label> elements in document order:                     *)
(*             text     label.innerText                                    *)
(*             htmlFor  the for-attribute, <<>> when absent                *)
(*             inside   the uid of the element nested in the label, 0 when *)
(*                      there is none                                      *)
(*   elements  the other elements in document order:                       *)
(*             uid      the identity of the node                           *)
(*             tag      "input", "select"                                  *)
(*             type     the type of an input: "text", "hidden", "file"     *)
(*             css      TRUE when display is none or visibility is hidden  *)
(*             placeholder, name, aria, id, dataTest   the attributes      *)
(*             e        the element as the Value Injector sees it          *)
(*             safe     VisualFeedback marked it safe                      *)
(***************************************************************************)
NoText == <<>>

UpperToLower ==
    [A |-> "a", B |-> "b", C |-> "c", D |-> "d", E |-> "e", F |-> "f", G |-> "g",
     H |-> "h", I |-> "i", J |-> "j", K |-> "k", L |-> "l", M |-> "m", N |-> "n",
     O |-> "o", P |-> "p", Q |-> "q", R |-> "r", S |-> "s", T |-> "t", U |-> "u",
     V |-> "v", W |-> "w", X |-> "x", Y |-> "y", Z |-> "z"]

\* String.prototype.toLowerCase
toLowerCase(t) ==
    [i \in DOMAIN t |-> IF t[i] \in DOMAIN UpperToLower THEN UpperToLower[t[i]] ELSE t[i]]

\* String.prototype.includes
includes(t, k) ==
    \E s \in 0..(Len(t) - Len(k)) : SubSeq(t, s + 1, s + Len(k)) = k

\* FieldMappings
KW_firstName ==
    << <<"f", "i", "r", "s", "t", "_", "n", "a", "m", "e">>,
       <<"f", "i", "r", "s", "t", "n", "a", "m", "e">>,
       <<"f", "i", "r", "s", "t", " ", "n", "a", "m", "e">>,
       <<"f", "n", "a", "m", "e">>,
       <<"g", "i", "v", "e", "n", "_", "n", "a", "m", "e">> >>

KW_fullName ==
    << <<"f", "u", "l", "l", "_", "n", "a", "m", "e">>,
       <<"f", "u", "l", "l", "n", "a", "m", "e">>,
       <<"f", "u", "l", "l", " ", "n", "a", "m", "e">>,
       <<"n", "a", "m", "e">>,
       <<"l", "e", "g", "a", "l", "_", "n", "a", "m", "e">> >>

KW_email ==
    << <<"e", "m", "a", "i", "l">>,
       <<"e", "-", "m", "a", "i", "l">>,
       <<"e", "m", "a", "i", "l", " ", "a", "d", "d", "r", "e", "s", "s">>,
       <<"e", "m", "a", "i", "l", "_", "a", "d", "d", "r", "e", "s", "s">>,
       <<"e", "_", "m", "a", "i", "l">> >>

Txt_first_name == <<"f", "i", "r", "s", "t", "_", "n", "a", "m", "e">>

Txt_email == <<"e", "m", "a", "i", "l">>

Txt_EmailAddress == <<"E", "m", "a", "i", "l", " ", "A", "d", "d", "r", "e", "s", "s">>

Txt_FirstName == <<"F", "i", "r", "s", "t", " ", "N", "a", "m", "e">>

Txt_file_name == <<"f", "i", "l", "e", "_", "n", "a", "m", "e">>

Txt_f1 == <<"f", "1">>

Txt_null == <<"n", "u", "l", "l">>

Txt_WorkEmail == <<"W", "o", "r", "k", " ", "E", "m", "a", "i", "l">>


Keywords(slot) ==
    CASE slot = "firstName" -> KW_firstName
      [] slot = "fullName" -> KW_fullName
      [] slot = "email" -> KW_email

\* const matches = (text) => { if (!text) return false; ... }
matches(kws, text) ==
    /\ text # NoText
    /\ \E t \in {toLowerCase(text)} :
         \E i \in DOMAIN kws :
            \E k \in {toLowerCase(kws[i])} : includes(t, k)

Min(S) == CHOOSE x \in S : \A y \in S : x <= y

\* the member of a one-element set
Pick(S) == CHOOSE x \in S : TRUE

\* the uid of the first element of the document among those at the
\* positions hits, 0 for null
First(d, hits) ==
    Pick({IF h = {} THEN 0 ELSE d.elements[Min(h)].uid : h \in {hits}})

Contains(d, uid) == \E i \in DOMAIN d.elements : d.elements[i].uid = uid

ByUid(d, uid) ==
    d.elements[CHOOSE i \in DOMAIN d.elements : d.elements[i].uid = uid]

\* document.getElementById(id)
getElementById(d, id) ==
    First(d, {i \in DOMAIN d.elements : id # NoText /\ d.elements[i].id = id})

\* document.querySelector(`input[attr="key"]`)
QueryInputEq(d, attr, key) ==
    First(d, {i \in DOMAIN d.elements :
                 /\ d.elements[i].tag = "input"
                 /\ d.elements[i][attr] # NoText
                 /\ d.elements[i][attr] = key})

\* document.querySelector(`input[attr*="key"]`)
QueryInputHas(d, attr, key) ==
    First(d, {i \in DOMAIN d.elements :
                 /\ d.elements[i].tag = "input"
                 /\ d.elements[i][attr] # NoText
                 /\ key # NoText
                 /\ includes(d.elements[i][attr], key)})

\* the hidden test of the attribute scan
Hidden(x) == x.type = "hidden" \/ x.css

\* Strategy 1 for one label: the for-attribute's element, else the nested one
LabelTarget(d, l, type) ==
    LET byFor == IF l.htmlFor # NoText THEN getElementById(d, l.htmlFor) ELSE 0
    IN  IF byFor # 0 THEN byFor
        ELSE IF l.inside # 0 /\ Contains(d, l.inside) /\ ByUid(d, l.inside).tag = type
        THEN l.inside
        ELSE 0

\* Strategy 1: the first matching label that leads to an element
FindByLabel(d, kws, type) ==
    LET hits == {i \in DOMAIN d.labels :
                    /\ matches(kws, d.labels[i].text)
                    /\ LabelTarget(d, d.labels[i], type) # 0}
    IN  IF hits = {} THEN 0 ELSE LabelTarget(d, d.labels[Min(hits)], type)

\* Strategy 2: the first visible element of the kind with a matching attribute
FindByAttribute(d, kws, type) ==
    First(d, {i \in DOMAIN d.elements :
                 /\ d.elements[i].tag = type
                 /\ ~Hidden(d.elements[i])
                 /\ \/ matches(kws, d.elements[i].placeholder)
                    \/ matches(kws, d.elements[i].name)
                    \/ matches(kws, d.elements[i].aria)
                    \/ matches(kws, d.elements[i].id)})

StrategyOrder_AttributeFirst(byLabel, byAttribute) ==
    IF byAttribute # 0 THEN byAttribute ELSE byLabel

\* the label strategy returns before the attribute scan is reached
StrategyOrder(byLabel, byAttribute) ==
    IF byLabel # 0 THEN byLabel ELSE byAttribute

\* FieldFinder.findField(keywords, type): a uid, 0 for null
findField(d, kws, type) ==
    StrategyOrder(FindByLabel(d, kws, type), FindByAttribute(d, kws, type))


(***************************************************************************)
(* Locating a field and resolving it again, handler by handler.            *)
(***************************************************************************)
\* a || b on element references
Or(a, b) == Pick({IF x # 0 THEN x ELSE b : x \in {a}})

\* keywords.includes(key)
HasKey(kws, key) == \E i \in DOMAIN kws : kws[i] = key

\* the generic handler's keyword list of the city field
KW_cityLocation ==
    << <<"c", "i", "t", "y">>, <<"l", "o", "c", "a", "t", "i", "o", "n">> >>

Txt_location == <<"l", "o", "c", "a", "t", "i", "o", "n">>
Txt_last_name == <<"l", "a", "s", "t", "_", "n", "a", "m", "e">>
Txt_phone == <<"p", "h", "o", "n", "e">>

KeywordsOf(job) ==
    IF job = "cityLocation" THEN KW_cityLocation ELSE Keywords(job)

\* the handler's direct selectors for one keyword
DirectSelectors(h, d, key) ==
    CASE h = "lever" ->
            Or(QueryInputEq(d, "name", key), QueryInputHas(d, "name", key))
      [] h = "ashby" ->
            Or(getElementById(d, key),
               Or(QueryInputEq(d, "name", key), QueryInputHas(d, "name", key)))
      [] h = "taleo" ->
            Or(Or(QueryInputHas(d, "id", key), QueryInputHas(d, "name", key)),
               Or(QueryInputHas(d, "id", toLowerCase(key)),
                  QueryInputHas(d, "name", toLowerCase(key))))
      [] h = "smartrecruiters" ->
            Or(Or(QueryInputEq(d, "dataTest", key), QueryInputEq(d, "name", key)),
               QueryInputHas(d, "id", key))
      [] OTHER -> 0

\* for (const key of keywords) { field = ...; if (field) break; }
FirstKey(h, d, kws) ==
    LET hits == {i \in DOMAIN kws : DirectSelectors(h, d, kws[i]) # 0}
    IN  IF hits = {} THEN 0 ELSE DirectSelectors(h, d, kws[Min(hits)])

\* the Greenhouse ids: first_name, last_name, email, phone
GreenhouseIds(d, kws) ==
    IF HasKey(kws, Txt_first_name) THEN getElementById(d, Txt_first_name)
    ELSE IF HasKey(kws, Txt_last_name) THEN getElementById(d, Txt_last_name)
    ELSE IF HasKey(kws, Txt_email) THEN getElementById(d, Txt_email)
    ELSE IF HasKey(kws, Txt_phone) THEN getElementById(d, Txt_phone)
    ELSE 0

\* the first part of fillField: the handler's direct selectors, then the
\* Field Locator
LocateField(h, d, kws) ==
    CASE h = "greenhouse" -> Or(GreenhouseIds(d, kws), findField(d, kws, "input"))
      [] h = "generic" -> Or(findField(d, kws, "input"), findField(d, kws, "select"))
      [] OTHER -> Or(FirstKey(h, d, kws), findField(d, kws, "input"))

Resolve_KeepReference(h, d, field, kws) == field.uid

\* the head of tryFill: the element the tick works on, 0 for null
Resolve(h, d, field, kws) ==
    LET again ==
            CASE h = "lever" ->
                    Or(QueryInputEq(d, "name", field.name), findField(d, kws, "input"))
              [] h = "smartrecruiters" ->
                    Or(QueryInputEq(d, "dataTest",
                           IF field.dataTest = NoText THEN Txt_null ELSE field.dataTest),
                       findField(d, kws, "input"))
              [] h \in {"ashby", "taleo"} ->
                    Or(getElementById(d, field.id), findField(d, kws, "input"))
              [] h = "generic" -> findField(d, kws, "input")
              [] h = "greenhouse" ->
                    Or(getElementById(d, field.id), findField(d, kws, "input"))
    IN  IF h = "greenhouse" THEN again
        ELSE IF Contains(d, field.uid) THEN field.uid
        ELSE again


(***************************************************************************)
(* SpecStale: one retry chain (fillField and its tryFill ticks) on a       *)
(* document whose located element is detached, or replaced by an           *)
(* equivalent element, between the ticks.                                  *)
(*   ref.field   the element fillField located, as the closure keeps it    *)
(*   ref.equiv   the uid of the equivalent element now attached in its     *)
(*               place, 0 when there is none                               *)
(*   ref.retries the argument of the pending tick                          *)
(*   ref.last    what the latest tick did:                                 *)
(*               stale     the kept reference was detached at the tick     *)
(*               equiv     the equivalent element attached at the tick     *)
(*               used      the uid handed to the injector or to markSafe   *)
(*               attached  that element was in the document at that moment *)
(***************************************************************************)
MaxElems == 2
MaxReplacements == 1

Elem(tag, type, css, placeholder, name, aria, id, dataTest) ==
    [uid |-> 0, tag |-> tag, type |-> type, css |-> css,
     placeholder |-> placeholder, name |-> name, aria |-> aria, id |-> id,
     dataTest |-> dataTest, e |-> Plain, safe |-> FALSE]

E_email == Elem("input", "text", FALSE, NoText, Txt_email, NoText, Txt_email, NoText)
E_emailPlaceholder ==
    Elem("input", "text", FALSE, Txt_EmailAddress, NoText, NoText, Txt_f1, NoText)
E_location == Elem("select", "text", FALSE, NoText, Txt_location, NoText, NoText, NoText)

\* the sequences of at most n members of S, none of them twice
Arrangements(S, n) ==
    UNION {{q \in [1..k -> S] : \A i, j \in 1..k : i # j => q[i] # q[j]} : k \in 0..n}

Numbered(q) == [i \in DOMAIN q |-> [q[i] EXCEPT !.uid = i]]

StaleTemplates ==
    {[t EXCEPT !.e = k] : t \in {E_email, E_emailPlaceholder, E_location},
                          k \in {Plain, React}}

StaleDocs ==
    {[labels |-> <<>>, elements |-> Numbered(q)] :
        q \in Arrangements(StaleTemplates, MaxElems) \ {<<>>}}

StaleJobs ==
    {<<h, "email">> : h \in Handlers} \cup {<<"generic", "cityLocation">>}

NoTick ==
    [stale |-> FALSE, equiv |-> 0, used |-> 0, attached |-> FALSE,
     injected |-> FALSE, threw |-> FALSE, exec |-> "typed"]

\* tryFill(retries) on the document, after its head resolved the element cur
tryFillDoc(d, r, retries, exec, cur) ==
    LET value == Profile(r.job)
        tick == [NoTick EXCEPT !.stale = ~Contains(d, r.field.uid),
                               !.equiv = IF Contains(d, r.equiv) THEN r.equiv ELSE 0,
                               !.used = cur,
                               !.attached = Contains(d, cur),
                               !.exec = exec]
        at == CHOOSE i \in DOMAIN d.elements : d.elements[i].uid = cur
        again == IF retries > 0 THEN "running" ELSE "exhausted"
    IN  IF cur = 0
        THEN [doc |-> d,
              ref |-> [r EXCEPT !.state = IF retries > 0 THEN "running" ELSE "lost",
                                !.retries = retries - 1, !.ticks = @ + 1,
                                !.last = tick]]
        ELSE IF ~Contains(d, cur)
        THEN \* a detached element: the injection acts outside the document
             [doc |-> d,
              ref |-> [r EXCEPT !.state = again, !.retries = retries - 1,
                                !.ticks = @ + 1,
                                !.last = [tick EXCEPT !.injected = TRUE]]]
        ELSE IF d.elements[at].e.value = value
        THEN [doc |-> [d EXCEPT !.elements[at].safe = TRUE],
              ref |-> [r EXCEPT !.state = "confirmed", !.ticks = @ + 1, !.last = tick]]
        ELSE LET res == setNativeValue(d.elements[at].e, value, exec)
             IN  IF res.threw
                 THEN [doc |-> [d EXCEPT !.elements[at].e = res.el],
                       ref |-> [r EXCEPT !.state = "threw", !.ticks = @ + 1,
                                         !.last = [tick EXCEPT !.injected = TRUE,
                                                               !.threw = TRUE]]]
                 ELSE [doc |-> [d EXCEPT !.elements[at] =
                                    MarkAfterInject([@ EXCEPT !.e = res.el])],
                       ref |-> [r EXCEPT !.state = again, !.retries = retries - 1,
                                         !.ticks = @ + 1,
                                         !.last = [tick EXCEPT !.injected = TRUE]]]

\* fillField(keywords, value): locate, then the first tryFill at once
StaleStart ==
    /\ ref.state = "located"
    /\ \E cur \in {Resolve(ref.h, doc, ref.field, KeywordsOf(ref.job))} :
         \E exec \in ExecOutcomes :
            \E n \in {tryFillDoc(doc, ref, RetryBudget(ref.h), exec, cur)} :
                doc' = n.doc /\ ref' = n.ref
    /\ UNCHANGED <<found, injVars, fillVars, detVars, uiVars>>

\* a retry timer fires
StaleTick ==
    /\ ref.state = "running"
    /\ ref.ticks >= 1
    /\ \E cur \in {Resolve(ref.h, doc, ref.field, KeywordsOf(ref.job))} :
         \E exec \in ExecOutcomes :
            \E n \in {tryFillDoc(doc, ref, ref.retries, exec, cur)} :
                doc' = n.doc /\ ref' = n.ref
    /\ UNCHANGED <<found, injVars, fillVars, detVars, uiVars>>

\* the element the chain works on: the located one or its latest replacement
Current == IF ref.equiv # 0 THEN ref.equiv ELSE ref.field.uid

Without(q, uid) ==
    LET at == CHOOSE i \in DOMAIN q : q[i].uid = uid
    IN  SubSeq(q, 1, at - 1) \o SubSeq(q, at + 1, Len(q))

\* the page removes the element from the document
Detach ==
    /\ ref.state = "running"
    /\ ref.ticks >= 1
    /\ Contains(doc, Current)
    /\ doc' = [doc EXCEPT !.elements = Without(@, Current)]
    /\ UNCHANGED <<ref, found, injVars, fillVars, detVars, uiVars>>

\* the page re-renders the element: a new node with the same attributes
\* takes its place, empty
Replace ==
    /\ ref.state = "running"
    /\ ref.ticks >= 1
    /\ ref.replaced < MaxReplacements
    /\ Contains(doc, Current)
    /\ LET at == CHOOSE i \in DOMAIN doc.elements : doc.elements[i].uid = Current
           new == Len(doc.elements) + ref.replaced + 1
       IN  /\ doc' = [doc EXCEPT !.elements[at] =
                        [@ EXCEPT !.uid = new, !.safe = FALSE,
                                  !.e = [@ EXCEPT !.value = "", !.fwState = ""]]]
           /\ ref' = [ref EXCEPT !.equiv = new, !.replaced = @ + 1]
    /\ UNCHANGED <<found, injVars, fillVars, detVars, uiVars>>

StaleInit ==
    /\ doc \in StaleDocs
    /\ \E j \in StaleJobs :
        \E uid \in {LocateField(j[1], doc, KeywordsOf(j[2]))} :
            ref = [h |-> j[1], job |-> j[2],
                   state |-> IF uid = 0 THEN "notfound" ELSE "located",
                   field |-> IF uid = 0 THEN E_email ELSE ByUid(doc, uid),
                   equiv |-> 0, replaced |-> 0,
                   retries |-> RetryBudget(j[1]), ticks |-> 0, last |-> NoTick]
    /\ found = [op |-> "none"]
    /\ el = Plain /\ hist = <<>>
    /\ FillIdle
    /\ DetectIdle
    /\ UiIdle

StaleNext == StaleStart \/ StaleTick \/ Detach \/ Replace

SpecStale == StaleInit /\ [][StaleNext]_vars


(***************************************************************************)
(* Properties of the kept element reference.                               *)
(***************************************************************************)
Ticked == ref.state \in {"running", "lost", "confirmed", "exhausted", "threw"}

C12_UsedElementAttached ==
    (Ticked /\ ref.last.used # 0) => ref.last.attached

\* a tick found its reference detached and worked on the attached replacement
C12_Witness ==
    /\ Ticked
    /\ ref.last.stale
    /\ ref.last.used # 0
    /\ ref.last.used # ref.field.uid
    /\ ref.last.injected
    /\ Contains(doc, ref.last.used)


(***************************************************************************)
(* SpecFind: one document, the Field Locator's calls on it and the locate  *)
(* step of a handler's pass.                                               *)
(*   found   the latest call:                                              *)
(*           op "findField"  findField(Keywords(slot), type) returned      *)
(*                           result; byLabel and byAttribute are what      *)
(*                           each strategy finds on its own                *)
(*           op "fillField"  the pass of handler h located located[slot]   *)
(*                           for each of its slots, 0 for none             *)
(***************************************************************************)
MaxLabels == 2

Txt_h1 == <<"h", "1">>

E_firstName ==
    Elem("input", "text", FALSE, NoText, Txt_first_name, NoText, Txt_first_name, NoText)
E_emailIdOnly == Elem("input", "text", FALSE, NoText, NoText, NoText, Txt_email, NoText)
E_hiddenEmail == Elem("input", "hidden", FALSE, NoText, Txt_email, NoText, Txt_h1, NoText)
E_invisibleEmail == Elem("input", "text", TRUE, NoText, Txt_email, NoText, NoText, NoText)
E_file == Elem("input", "file", FALSE, NoText, Txt_file_name, NoText, NoText, NoText)

FindTemplates ==
    {E_firstName, E_emailPlaceholder, E_emailIdOnly, E_hiddenEmail,
     E_invisibleEmail, E_file}

Label(text, htmlFor, inside) == [text |-> text, htmlFor |-> htmlFor, inside |-> inside]

\* the labels of a document of n elements
FindLabels(n) ==
    {Label(Txt_EmailAddress, Txt_f1, 0), Label(Txt_WorkEmail, Txt_h1, 0),
     Label(Txt_FirstName, Txt_first_name, 0)}
    \cup {Label(Txt_WorkEmail, NoText, k) : k \in 1..n}

FindDocs ==
    UNION {{[labels |-> ls, elements |-> Numbered(q)] :
                ls \in Arrangements(FindLabels(Len(q)), MaxLabels)} :
           q \in Arrangements(FindTemplates, MaxElems)}

FindSlots == {"firstName", "fullName", "email"}

\* the slots of FindSlots that the pass of handler h fills
SlotsOf(h) == {Fields(h)[i].slot : i \in DOMAIN Fields(h)} \cap FindSlots

NoCall == [op |-> "none"]

FindField(slot, type) ==
    /\ found.op = "none"
    /\ found' = [op |-> "findField", slot |-> slot, type |-> type,
                 result |-> findField(doc, Keywords(slot), type),
                 byLabel |-> FindByLabel(doc, Keywords(slot), type),
                 byAttribute |-> FindByAttribute(doc, Keywords(slot), type)]
    /\ UNCHANGED <<doc, ref, injVars, fillVars, detVars, uiVars>>

\* the first part of every fillField call of one pass
FillFields(h) ==
    /\ found.op = "none"
    /\ found' = [op |-> "fillField", h |-> h,
                 located |-> [slot \in SlotsOf(h) |->
                                 LocateField(h, doc, Keywords(slot))]]
    /\ UNCHANGED <<doc, ref, injVars, fillVars, detVars, uiVars>>

FindInit ==
    /\ doc \in FindDocs
    /\ found = NoCall
    /\ ref = [state |-> "none"]
    /\ el = Plain /\ hist = <<>>
    /\ FillIdle
    /\ DetectIdle
    /\ UiIdle

FindNext ==
    \/ \E slot \in FindSlots : FindField(slot, "input")
    \/ \E h \in Handlers : FillFields(h)

SpecFind == FindInit /\ [][FindNext]_vars


(***************************************************************************)
(* Properties of the Field Locator and of the locate step.                 *)
(***************************************************************************)
\* C13 (as claimed): the chains of two slots with different target values
\* never work on the same element: no two such slots of one pass locate the
\* same element.
C13_SlotsKeepApart ==
    found.op = "fillField" =>
        \A s1, s2 \in DOMAIN found.located :
            (/\ s1 # s2
             /\ Profile(s1) # Profile(s2)
             /\ found.located[s1] # 0)
                => found.located[s1] # found.located[s2]

\* C16 (as claimed): no fillField call of a pass locates a file input, so
\* none is handed to the retry chain and the injector.
C16_FileInputNeverLocated ==
    found.op = "fillField" =>
        \A s \in DOMAIN found.located :
            found.located[s] # 0 => ByUid(doc, found.located[s]).type # "file"

\* the labels whose text matches and whose for-attribute resolves
ForLabels(kws) ==
    {i \in DOMAIN doc.labels :
        /\ matches(kws, doc.labels[i].text)
        /\ getElementById(doc, doc.labels[i].htmlFor) # 0}

\* the labels whose text matches, whose for-attribute is absent or dangling,
\* and which contain an element of the kind
NestLabels(kws, type) ==
    {i \in DOMAIN doc.labels :
        /\ matches(kws, doc.labels[i].text)
        /\ getElementById(doc, doc.labels[i].htmlFor) = 0
        /\ doc.labels[i].inside # 0
        /\ ByUid(doc, doc.labels[i].inside).tag = type}

\* C17 (as claimed): when a matching label's for-attribute resolves,
\* findField returns the element of the first such label.
C17_FirstForLabelWins ==
    (found.op = "findField" /\ ForLabels(Keywords(found.slot)) # {}) =>
        found.result =
            getElementById(doc, doc.labels[Min(ForLabels(Keywords(found.slot)))].htmlFor)

\* C17 (amended): when a matching label's for-attribute resolves, findField
\* returns a label's element, whatever the attribute scan would find: the
\* element of the first such label, unless an earlier matching label without
\* a resolving for-attribute contains an element of the kind, which is then
\* returned.
C17_FirstLabelTargetWins ==
    (found.op = "findField" /\ ForLabels(Keywords(found.slot)) # {}) =>
        LET for == ForLabels(Keywords(found.slot))
            nest == NestLabels(Keywords(found.slot), found.type)
        IN  IF \E i \in nest : i < Min(for)
            THEN found.result = doc.labels[Min(nest)].inside
            ELSE found.result = getElementById(doc, doc.labels[Min(for)].htmlFor)

\* a label leads to one element while the attribute scan finds another,
\* visible one
C17_Witness ==
    /\ found.op = "findField"
    /\ ForLabels(Keywords(found.slot)) # {}
    /\ found.byAttribute # 0
    /\ found.byAttribute # found.byLabel
    /\ found.result = found.byLabel

\* C18 (as claimed): findField never returns a hidden element.
C18_NeverHidden ==
    (found.op = "findField" /\ found.result # 0) => ~Hidden(ByUid(doc, found.result))

\* the best attribute on which an element matches: 1 placeholder, 2 name,
\* 3 aria-label, 4 id, 5 none
Rank(kws, x) ==
    IF matches(kws, x.placeholder) THEN 1
    ELSE IF matches(kws, x.name) THEN 2
    ELSE IF matches(kws, x.aria) THEN 3
    ELSE IF matches(kws, x.id) THEN 4
    ELSE 5

\* C19 (as claimed): when no label leads to an element, no visible element
\* of the kind matches on a higher-priority attribute than the one returned.
C19_AttributePriority ==
    (found.op = "findField" /\ found.byLabel = 0 /\ found.result # 0) =>
        \A i \in DOMAIN doc.elements :
            (doc.elements[i].tag = found.type /\ ~Hidden(doc.elements[i]))
                => Rank(Keywords(found.slot), ByUid(doc, found.result))
                       <= Rank(Keywords(found.slot), doc.elements[i])


(***************************************************************************)
(* Properties of the order of the fields within a pass.                    *)
(***************************************************************************)
DeclaredIndex(slot) ==
    CHOOSE i \in DOMAIN Fields(handler) : Fields(handler)[i].slot = slot

\* C14: a pass that ran its fields made the first attempt of every field
\* present on the page, in the declared order, within the invocation itself:
\* the chains of the pass follow the declared order, and every present field
\* has had its first tick whatever the state of the chains started before
\* it, a chain that is still retrying a reverted value included.
C14_DeclaredOrderNoBlocking ==
    \A pc \in DOMAIN passes :
        passes[pc].status \in {"suspended", "decided"} =>
            LET cs == ChainsOf(pc, passes[pc].attempt)
            IN  /\ \A slot \in PageSlots \cap DeclaredSlots :
                       dom[slot].present =>
                           \E c \in cs : chains[c].slot = slot /\ chains[c].ticks >= 1
                /\ \A c1, c2 \in cs :
                       c1 < c2 => DeclaredIndex(chains[c1].slot)
                                      < DeclaredIndex(chains[c2].slot)

\* the chain of the email field is still retrying a value that its framework
\* reverts, and the github field, declared after it, has been injected
C14_Witness ==
    \E c1, c2 \in DOMAIN chains :
        /\ chains[c1].pc = chains[c2].pc /\ chains[c1].attempt = chains[c2].attempt
        /\ chains[c1].slot = "email" /\ chains[c2].slot = "github"
        /\ dom["email"].e.fw = "hostile"
        /\ chains[c1].state = "running" /\ chains[c1].calls >= 2
        /\ PendingTicks(c1) # {}
        /\ chains[c2].calls >= 1
        /\ passes[chains[c1].pc].status = "decided"


(***************************************************************************)
(* Properties of the click re-trigger.                                     *)
(***************************************************************************)
\* C15 (as claimed): in every handler each click on a button has scheduled
\* exactly one further pass chain, which starts at attempt 1 after the
\* handler's delay: besides the chain started at load there is one pass
\* chain per click.
C15_EveryClickSchedulesPass ==
    /\ Len(passes) = 1 + clicks
    /\ \A i \in DOMAIN timers :
           (timers[i].kind = "pass" /\ passes[timers[i].b].runs = 0)
               => timers[i].a = 1


(***************************************************************************)
(* SpecDetect: one page and the Platform Classifier.                       *)
(*   loc.hostname  window.location.hostname                                *)
(*   loc.href      window.location.href                                    *)
(*   loc.markers   the DOM markers present on the page:                    *)
(*                 "ghApplication"  an element with id                     *)
(*                                  greenhouse-application                 *)
(*                 "ghDiv"          a div whose id starts with greenhouse  *)
(*                 "leverMeta"      a meta whose content contains Lever    *)
(*   loc.text      document.body.innerText                                 *)
(*   scripts[h]    the content script of handler h:                        *)
(*                 "pending"   not run yet                                 *)
(*                 "returned"  left at its platform check                  *)
(*                 "checked"   passed the platform check, left before its  *)
(*                             first pass                                  *)
(*                 "started"   passed the platform check and started       *)
(*                             runAutoFill                                 *)
(***************************************************************************)
\* the hostname entries of getPlatform
D_greenhouse ==
    <<"g", "r", "e", "e", "n", "h", "o", "u", "s", "e", ".", "i", "o">>
D_lever ==
    <<"l", "e", "v", "e", "r", ".", "c", "o">>
D_workday ==
    <<"m", "y", "w", "o", "r", "k", "d", "a", "y", "j", "o", "b", "s", ".",
      "c", "o", "m">>
D_taleo ==
    <<"t", "a", "l", "e", "o", ".", "n", "e", "t">>
D_smartrecruiters ==
    <<"s", "m", "a", "r", "t", "r", "e", "c", "r", "u", "i", "t", "e", "r",
      "s", ".", "c", "o", "m">>
D_ashby ==
    <<"a", "s", "h", "b", "y", "h", "q", ".", "c", "o", "m">>
U_greenhouse ==
    <<"b", "o", "a", "r", "d", "s", ".", "g", "r", "e", "e", "n", "h", "o",
      "u", "s", "e", ".", "i", "o">>
U_lever ==
    <<"j", "o", "b", "s", ".", "l", "e", "v", "e", "r", ".", "c", "o">>
\* the hostnames and paths of the pages
H_greenhouse ==
    <<"b", "o", "a", "r", "d", "s", ".", "g", "r", "e", "e", "n", "h", "o",
      "u", "s", "e", ".", "i", "o">>
H_lever ==
    <<"j", "o", "b", "s", ".", "l", "e", "v", "e", "r", ".", "c", "o">>
H_workday ==
    <<"a", "c", "m", "e", ".", "w", "d", "1", ".", "m", "y", "w", "o", "r",
      "k", "d", "a", "y", "j", "o", "b", "s", ".", "c", "o", "m">>
H_taleo ==
    <<"a", "c", "m", "e", ".", "t", "a", "l", "e", "o", ".", "n", "e", "t">>
H_smartrecruiters ==
    <<"j", "o", "b", "s", ".", "s", "m", "a", "r", "t", "r", "e", "c", "r",
      "u", "i", "t", "e", "r", "s", ".", "c", "o", "m">>
H_ashby ==
    <<"j", "o", "b", "s", ".", "a", "s", "h", "b", "y", "h", "q", ".", "c",
      "o", "m">>
H_custom ==
    <<"c", "a", "r", "e", "e", "r", "s", ".", "a", "c", "m", "e", ".", "c",
      "o", "m">>
Scheme ==
    <<"h", "t", "t", "p", "s", ":", "/", "/">>
P_apply ==
    <<"/", "A", "p", "p", "l", "y">>
P_viaLever ==
    <<"/", "a", "p", "p", "l", "y", "?", "s", "r", "c", "=", "j", "o", "b",
      "s", ".", "l", "e", "v", "e", "r", ".", "c", "o">>
P_viaGreenhouse ==
    <<"/", "a", "p", "p", "l", "y", "?", "f", "o", "r", "=", "b", "o", "a",
      "r", "d", "s", ".", "g", "r", "e", "e", "n", "h", "o", "u", "s", "e",
      ".", "i", "o">>
H_plain ==
    <<"w", "w", "w", ".", "a", "c", "m", "e", ".", "c", "o", "m">>
Hostnames ==
    {H_greenhouse, H_lever, H_workday, H_taleo, H_smartrecruiters, H_ashby,
     H_custom, H_plain}

Paths == {P_apply, P_viaLever, P_viaGreenhouse}

Markers == {"ghApplication", "ghDiv", "leverMeta"}

\* the words of the generic handler's job-site heuristic
W_career == <<"c", "a", "r", "e", "e", "r">>
W_job == <<"j", "o", "b">>
W_apply == <<"a", "p", "p", "l", "y">>
W_resume == <<"r", "e", "s", "u", "m", "e">>
W_cv == <<"c", "v">>
W_application == <<"a", "p", "p", "l", "i", "c", "a", "t", "i", "o", "n">>
T_upload == <<"U", "p", "l", "o", "a", "d", " ", "y", "o", "u", "r", " ", "R", "e", "s", "u", "m", "e">>
T_welcome == <<"W", "e", "l", "c", "o", "m", "e">>

PageTexts == {T_upload, T_welcome}

Locations ==
    {[hostname |-> h, href |-> Scheme \o h \o p, markers |-> m, text |-> t] :
        h \in Hostnames, p \in Paths, m \in SUBSET Markers, t \in PageTexts}

\* ATSDetector.getPlatform
getPlatform(l) ==
    LET url == toLowerCase(l.href)
        hostname == l.hostname
    IN  IF \/ includes(hostname, D_greenhouse)
           \/ includes(url, U_greenhouse)
           \/ "ghApplication" \in l.markers
        THEN "greenhouse"
        ELSE IF includes(hostname, D_lever) \/ includes(url, U_lever) THEN "lever"
        ELSE IF includes(hostname, D_workday) THEN "workday"
        ELSE IF includes(hostname, D_taleo) THEN "taleo"
        ELSE IF includes(hostname, D_smartrecruiters) THEN "smartrecruiters"
        ELSE IF includes(hostname, D_ashby) THEN "ashby"
        ELSE IF "ghDiv" \in l.markers THEN "greenhouse"
        ELSE IF "leverMeta" \in l.markers THEN "lever"
        ELSE "unknown"

\* detector.js is loaded: its last line calls getPlatform
Detect ==
    /\ platform = ""
    /\ platform' = getPlatform(loc)
    /\ UNCHANGED <<loc, scripts, injVars, fillVars, findVars, uiVars>>

\* the platform check at the head of handler h; p is what getPlatform returned
PlatformCheck(h, p, l) ==
    CASE h = "greenhouse" -> p = "greenhouse"
      [] h = "lever" -> p = "lever" \/ includes(l.href, D_lever)
      [] h = "taleo" -> p = "taleo" \/ includes(l.href, D_taleo)
      [] h = "smartrecruiters" ->
            p = "smartrecruiters" \/ includes(l.href, D_smartrecruiters)
      [] h = "ashby" -> p = "ashby"
      [] h = "generic" -> p = "unknown" \/ p = "generic"

\* the generic handler's further check: the page looks like a job site
likelyJobSite(l) ==
    \E pageText \in {toLowerCase(l.text)} :
        \/ includes(l.href, W_career)
        \/ includes(l.href, W_job)
        \/ includes(l.href, W_apply)
        \/ includes(pageText, W_resume)
        \/ includes(pageText, W_cv)
        \/ includes(pageText, W_application)

\* how far the content script of handler h gets on the page
HandlerStart(h, p, l) ==
    IF ~PlatformCheck(h, p, l) THEN "returned"
    ELSE IF h = "generic" /\ ~likelyJobSite(l) THEN "checked"
    ELSE "started"

\* the content script of handler h runs (after detector.js, which defines
\* window.ATSDetector); constants.js has defined window.SmartJobApply
StartHandler(h) ==
    /\ platform # ""
    /\ scripts[h] = "pending"
    /\ \E p \in {getPlatform(loc)} :
          scripts' = [scripts EXCEPT ![h] = HandlerStart(h, p, loc)]
    /\ UNCHANGED <<loc, platform, injVars, fillVars, findVars, uiVars>>

DetectInit ==
    /\ loc \in Locations
    /\ platform = ""
    /\ scripts = [h \in Handlers |-> "pending"]
    /\ el = Plain /\ hist = <<>>
    /\ FillIdle
    /\ FindIdle
    /\ UiIdle

DetectNext ==
    \/ Detect
    \/ \E h \in Handlers : StartHandler(h)

SpecDetect == DetectInit /\ [][DetectNext]_vars

(***************************************************************************)
(* Properties of the Platform Classifier.                                  *)
(***************************************************************************)
\* the hostname table: domain and platform, in the order of the checks
DomainTable ==
    << <<D_greenhouse, "greenhouse">>, <<D_lever, "lever">>, <<D_workday, "workday">>,
       <<D_taleo, "taleo">>, <<D_smartrecruiters, "smartrecruiters">>,
       <<D_ashby, "ashby">> >>

\* the platforms of the hostname and URL entries that match the location
EntryMatches(l) ==
    {DomainTable[i][2] : i \in {j \in DOMAIN DomainTable :
                                    includes(l.hostname, DomainTable[j][1])}}
    \cup (IF includes(toLowerCase(l.href), U_greenhouse) THEN {"greenhouse"} ELSE {})
    \cup (IF includes(toLowerCase(l.href), U_lever) THEN {"lever"} ELSE {})

\* C20 (as claimed): DOM markers count only when no hostname or URL entry
\* matches: a page whose entries name one platform gets that platform
\* whatever markers are present, and the default only when neither an entry
\* nor a marker matches.
C20_MarkersOnlyAsFallback ==
    platform # "" =>
        /\ \A p \in EntryMatches(loc) : EntryMatches(loc) = {p} => platform = p
        /\ platform = "unknown" => (EntryMatches(loc) = {} /\ loc.markers = {})

(***************************************************************************)
(* Properties of the handlers' platform checks.                            *)
(***************************************************************************)
AllScriptsRan == \A h \in Handlers : scripts[h] # "pending"

Accepted == {h \in Handlers : scripts[h] \in {"checked", "started"}}

\* C21 (as claimed): on every page at most one handler passes its platform
\* check and starts fill passes, whatever the hostname, the href and the DOM
\* markers are.
C21_HandlersMutuallyExclusive ==
    Cardinality({h \in Handlers : scripts[h] = "started"}) <= 1

\* C22 (as claimed): once every content script has run, some handler has
\* accepted the page at its platform check: the handler of the platform that
\* getPlatform returned when it is a recognised one, the generic handler
\* when it is unknown.
C22_EveryPlatformHasHandler ==
    AllScriptsRan =>
        IF platform = "unknown" THEN "generic" \in Accepted
        ELSE platform \in Accepted


(***************************************************************************)
(* SpecDropdown: one dropdown widget and the dropdown driver.              *)
(*   widget.tag      tagName of the element handed to DropdownFiller.fill  *)
(*   widget.cls      where a class attribute containing "select" is found: *)
(*                   "closest"  on the element or an ancestor              *)
(*                   "Select"   on the element, spelled Select only        *)
(*                   "inner"    on a descendant                            *)
(*                   "none"     nowhere                                    *)
(*   widget.role     "combobox": role=combobox; "haspopup":                *)
(*                   aria-haspopup=listbox; "none"                         *)
(*   widget.options  the options of a select, or the options the popup of  *)
(*                   a widget holds, in document order                     *)
(*   widget.selected the index of the selected option, 0 for none          *)
(*   widget.opens    the popup (its options, its listbox) is rendered when *)
(*                   the control is clicked                                *)
(*   widget.input    the container holds a filter input                    *)
(*   widget.popup    "closed", "open", "filtered"                          *)
(*   widget.events   what was dispatched on the widget, in order           *)
(* ddlog[i]: the i-th call of DropdownFiller.fill: its value, the type it  *)
(* detected, the widget before and after the call, its result ("pending"   *)
(* until it returns) and the index of the option it chose.                 *)
(***************************************************************************)
MaxOptions == 2   \* options of a widget
MaxFills == 2     \* calls of DropdownFiller.fill on the widget

\* Profile.gender
T_Male == <<"M", "a", "l", "e">>

Opt(value, text) == [value |-> value, text |-> text]

O_man == Opt(<<"M", "A", "L", "E">>, <<"M", "a", "n">>)
O_male == Opt(<<"2">>, <<"M", "A", "L", "E">>)
O_female == Opt(<<"f">>, <<"F", "e", "m", "a", "l", "e">>)
O_m == Opt(<<"0">>, <<"M">>)
O_other == Opt(<<"2">>, <<"O", "t", "h", "e", "r">>)

\* <option value=""></option>
O_blank == Opt(NoText, NoText)

OptionPool == {O_man, O_male, O_female, O_m, O_other, O_blank}

OptionLists == Arrangements(OptionPool, MaxOptions)

Widget(tag, cls, role, options, opens, input) ==
    [tag |-> tag, cls |-> cls, role |-> role, options |-> options,
     selected |-> IF tag = "SELECT" /\ options # <<>> THEN 1 ELSE 0,
     opens |-> opens, input |-> input, popup |-> "closed", events |-> <<>>]

Widgets ==
    {Widget("SELECT", c, c, o, FALSE, FALSE) :
        c \in {"none"}, o \in OptionLists}
    \cup {Widget("SELECT", "closest", "combobox", o, FALSE, FALSE) : o \in OptionLists}
    \cup {Widget("INPUT", c, r, o, op, inp) :
            c \in {"closest", "Select", "inner"}, r \in {"none", "combobox"},
            o \in OptionLists, op \in BOOLEAN, inp \in BOOLEAN}
    \cup {Widget("INPUT", "none", r, o, op, FALSE) :
            r \in {"none", "combobox", "haspopup"}, o \in OptionLists,
            op \in BOOLEAN}

DetectOrder_AriaFirst(w) ==
    IF w.tag = "SELECT" THEN "native"
    ELSE IF w.role \in {"combobox", "haspopup"} THEN "aria-combobox"
    ELSE IF w.cls \in {"closest", "Select", "inner"} THEN "react-select"
    ELSE "unknown"

\* DropdownFiller.detectType
detectType(w) ==
    IF w.tag = "SELECT" THEN "native"
    ELSE IF \/ w.cls = "closest"    \* classList.includes('select')
            \/ w.cls = "Select"     \* classList.includes('Select')
            \/ w.cls = "inner"      \* element.querySelector('[class*="select"]')
    THEN "react-select"
    ELSE IF w.role = "combobox" \/ w.role = "haspopup" THEN "aria-combobox"
    ELSE "unknown"

\* the options that strategy k of fillNative matches
StrategyHits(opts, k, term) ==
    CASE k = 1 -> {i \in DOMAIN opts : toLowerCase(opts[i].value) = term}
      [] k = 2 -> {i \in DOMAIN opts : toLowerCase(opts[i].text) = term}
      [] k = 3 -> {i \in DOMAIN opts : includes(toLowerCase(opts[i].text), term)}
      [] k = 4 -> {i \in DOMAIN opts : includes(term, toLowerCase(opts[i].text))}

\* options.find(...): the first hit, 0 for undefined
Find(hits) == Pick({IF h = {} THEN 0 ELSE Min(h) : h \in {hits}})

StrategyChain_PartialFirst(opts, term) ==
    Or(Find(StrategyHits(opts, 3, term)),
       Or(Find(StrategyHits(opts, 1, term)),
          Or(Find(StrategyHits(opts, 2, term)), Find(StrategyHits(opts, 4, term)))))

\* selectedOption after the four strategies of fillNative
StrategyChain(opts, term) ==
    Or(Find(StrategyHits(opts, 1, term)),
       Or(Find(StrategyHits(opts, 2, term)),
          Or(Find(StrategyHits(opts, 3, term)), Find(StrategyHits(opts, 4, term)))))

\* selectElement.value = v : the first option that carries the value v is
\* selected, none when no option carries it
SetSelectValue(w, v) ==
    [w EXCEPT !.selected = Find({i \in DOMAIN w.options : w.options[i].value = v})]

NativeEvents_ChangeOnly == <<"change">>

\* the events fillNative dispatches after setting the value
NativeEvents == <<"change", "input", "blur">>

Ret(w, result, chose) == [el |-> w, result |-> result, chose |-> chose]

\* DropdownFiller.fillNative(selectElement, value)
fillNative(w, value) ==
    IF w.tag # "SELECT" THEN Ret(w, "false", 0)
    ELSE Pick({IF m = 0 THEN Ret(w, "false", 0)
               ELSE Ret([SetSelectValue(w, w.options[m].value)
                             EXCEPT !.events = @ \o NativeEvents], "true", m) :
               m \in {StrategyChain(w.options, toLowerCase(value))}})

\* the options in the document when the popup strategies scan for them
Rendered(w, term) ==
    CASE w.popup = "closed" -> {}
      [] w.popup = "open" -> DOMAIN w.options
      [] w.popup = "filtered" ->
            {i \in DOMAIN w.options : includes(toLowerCase(w.options[i].text), term)}

ScanHits_ExactFirst(w, term) ==
    IF \E i \in Rendered(w, term) : toLowerCase(w.options[i].text) = term
    THEN {i \in Rendered(w, term) : toLowerCase(w.options[i].text) = term}
    ELSE {i \in Rendered(w, term) :
            \/ includes(toLowerCase(w.options[i].text), term)
            \/ includes(term, toLowerCase(w.options[i].text))}

\* if (text.includes(searchTerm) || searchTerm.includes(text))
ScanHits(w, term) ==
    {i \in Rendered(w, term) :
        \/ includes(toLowerCase(w.options[i].text), term)
        \/ includes(term, toLowerCase(w.options[i].text))}

\* control.click(), and element.click(); element.focus() of the combobox
OpenPopup(w, evs) ==
    [w EXCEPT !.popup = IF w.opens THEN "open" ELSE "closed",
              !.events = @ \o evs]

\* this.setNativeValue(input, value): the widget filters its options
TypeFilter(w) ==
    [w EXCEPT !.popup = IF @ = "open" THEN "filtered" ELSE @]

\* the loop over the rendered options: option.click() on the first hit,
\* else the closing step (document.body.click(), element.blur())
ScanAndClick(w, value, closing) ==
    Pick({IF m = 0
          THEN Ret([w EXCEPT !.popup = "closed", !.events = @ \o closing], "false", 0)
          ELSE Ret([w EXCEPT !.popup = "closed", !.selected = m,
                             !.events = @ \o <<"optionClick">>], "true", m) :
          m \in {Find(ScanHits(w, toLowerCase(value)))}})

\* fillARIACombobox after its sleep: the listbox, then the scan
AriaScanStep(w, value) ==
    IF w.popup = "closed" THEN Ret(w, "false", 0)     \* no listbox
    ELSE ScanAndClick(w, value, <<"blur">>)

Entry(value, type, before, r, pc) ==
    [value |-> value, type |-> type, before |-> before, after |-> r.el,
     result |-> r.result, chose |-> r.chose, pc |-> pc]

Pending == ddlog # <<>> /\ ddlog[Len(ddlog)].result = "pending"

DDTargets == {T_Male}

\* DropdownFiller.fill(element, value), up to its first await
DFFill(value) ==
    /\ widget.tag # "none"
    /\ ~Pending
    /\ Len(ddlog) < MaxFills
    /\ \E type \in {detectType(widget)} :
         IF value = NoText
         THEN /\ ddlog' = Append(ddlog, Entry(value, "none", widget, Ret(widget, "false", 0), "done"))
              /\ UNCHANGED widget
         ELSE IF type \in {"native", "unknown"}
         THEN \E r \in {fillNative(widget, value)} :
                /\ widget' = r.el
                /\ ddlog' = Append(ddlog, Entry(value, type, widget, r, "done"))
         ELSE \E w \in {OpenPopup(widget, IF type = "react-select" THEN <<"click">>
                                          ELSE <<"click", "focus">>)} :
                /\ widget' = w
                /\ ddlog' = Append(ddlog, Entry(value, type, widget, Ret(w, "pending", 0), "opened"))
    /\ UNCHANGED <<injVars, fillVars, findVars, detVars, demogVars, toastVars, moreVars>>

\* fillReactSelect after sleep(500): the filter input is typed into
ReactType ==
    /\ Pending
    /\ ddlog[Len(ddlog)].type = "react-select"
    /\ ddlog[Len(ddlog)].pc = "opened"
    /\ widget.input
    /\ widget' = TypeFilter(widget)
    /\ ddlog' = [ddlog EXCEPT ![Len(ddlog)].after = TypeFilter(widget),
                              ![Len(ddlog)].pc = "typed"]
    /\ UNCHANGED <<injVars, fillVars, findVars, detVars, demogVars, toastVars, moreVars>>

\* fillReactSelect at its scan: after sleep(300), or right after sleep(500)
\* when the container holds no input
ReactScan ==
    /\ Pending
    /\ ddlog[Len(ddlog)].type = "react-select"
    /\ \/ ddlog[Len(ddlog)].pc = "typed"
       \/ ddlog[Len(ddlog)].pc = "opened" /\ ~widget.input
    /\ \E r \in {ScanAndClick(widget, ddlog[Len(ddlog)].value, <<"bodyClick">>)} :
         /\ widget' = r.el
         /\ ddlog' = [ddlog EXCEPT ![Len(ddlog)].after = r.el,
                                   ![Len(ddlog)].result = r.result,
                                   ![Len(ddlog)].chose = r.chose,
                                   ![Len(ddlog)].pc = "done"]
    /\ UNCHANGED <<injVars, fillVars, findVars, detVars, demogVars, toastVars, moreVars>>

\* fillARIACombobox after sleep(300)
AriaScan ==
    /\ Pending
    /\ ddlog[Len(ddlog)].type = "aria-combobox"
    /\ \E r \in {AriaScanStep(widget, ddlog[Len(ddlog)].value)} :
         /\ widget' = r.el
         /\ ddlog' = [ddlog EXCEPT ![Len(ddlog)].after = r.el,
                                   ![Len(ddlog)].result = r.result,
                                   ![Len(ddlog)].chose = r.chose,
                                   ![Len(ddlog)].pc = "done"]
    /\ UNCHANGED <<injVars, fillVars, findVars, detVars, demogVars, toastVars, moreVars>>

\* between two calls the page re-renders the widget inside a wrapper whose
\* class contains "select"
Rewrap ==
    /\ ~Pending
    /\ ddlog # <<>>
    /\ widget.tag = "INPUT"
    /\ widget.cls = "none"
    /\ widget' = [widget EXCEPT !.cls = "closest", !.popup = "closed"]
    /\ UNCHANGED <<ddlog, injVars, fillVars, findVars, detVars, demogVars, toastVars, moreVars>>

DropdownInit ==
    /\ widget \in Widgets
    /\ ddlog = <<>>
    /\ el = Plain /\ hist = <<>>
    /\ FillIdle
    /\ FindIdle
    /\ DetectIdle
    /\ DemogIdle
    /\ ToastIdle
    /\ MoreIdle

DropdownNext ==
    \/ \E value \in DDTargets : DFFill(value)
    \/ ReactType
    \/ ReactScan
    \/ AriaScan
    \/ Rewrap

SpecDropdown == DropdownInit /\ [][DropdownNext]_vars

(***************************************************************************)
(* Properties of the dropdown driver.                                      *)
(***************************************************************************)
Done(i) == ddlog[i].result # "pending"

\* the widget as call i left it
After(i) == ddlog[i].after

\* the first of the four passes that option o matches, 5 when none does
PassOf(o, t) ==
    IF toLowerCase(o.value) = t THEN 1
    ELSE IF toLowerCase(o.text) = t THEN 2
    ELSE IF includes(toLowerCase(o.text), t) THEN 3
    ELSE IF includes(t, toLowerCase(o.text)) THEN 4
    ELSE 5

NativeCall(i) ==
    /\ Done(i)
    /\ ddlog[i].type = "native"
    /\ ddlog[i].value # NoText

BestPass(i) ==
    Min({PassOf(ddlog[i].before.options[j], toLowerCase(ddlog[i].value)) :
            j \in DOMAIN ddlog[i].before.options} \cup {5})

\* the option the claim names: the first one, in option order, of the first
\* pass that yields a match
ClaimedOption(i) ==
    Min({j \in DOMAIN ddlog[i].before.options :
            PassOf(ddlog[i].before.options[j], toLowerCase(ddlog[i].value)) = BestPass(i)})

\* C23 (as claimed): after a call of fillNative that found a match, the
\* selected option is the first option, in option order, of the first of the
\* four passes (value equals, text equals, text contains target, target
\* contains text) that yields a match; an option that equals the target is
\* selected in preference to a partial match placed earlier.
C23_NativePassOrder ==
    \A i \in DOMAIN ddlog :
        (NativeCall(i) /\ BestPass(i) < 5) =>
            /\ ddlog[i].result = "true"
            /\ After(i).selected = ClaimedOption(i)

\* a call that ended in fillNative: the native and the unknown kind
FillNativeCall(i) ==
    /\ Done(i)
    /\ ddlog[i].type \in {"native", "unknown"}
    /\ ddlog[i].value # NoText

Matched(i) == ddlog[i].before.tag = "SELECT" /\ BestPass(i) < 5

\* C24: a call of fillNative that finds a match returns true, leaves the
\* select's value equal to the value of the matched option and has
\* dispatched change, input and blur once each, in that order; a call that
\* finds no match returns false and leaves the element as it was, with no
\* event dispatched.
C24_NativeEffects ==
    \A i \in DOMAIN ddlog :
        FillNativeCall(i) =>
            IF Matched(i)
            THEN /\ ddlog[i].result = "true"
                 /\ After(i).selected # 0
                 /\ After(i).options[After(i).selected].value
                        = ddlog[i].before.options[ClaimedOption(i)].value
                 /\ After(i).events = ddlog[i].before.events \o <<"change", "input", "blur">>
                 /\ After(i) = [ddlog[i].before EXCEPT !.selected = After(i).selected,
                                                       !.events = After(i).events]
            ELSE /\ ddlog[i].result = "false"
                 /\ After(i) = ddlog[i].before

\* a select whose second call matched again after the first had changed the
\* selection, and a call on the same page that matched nothing
C24_Witness ==
    /\ Len(ddlog) = 2
    /\ FillNativeCall(1) /\ FillNativeCall(2)
    /\ Matched(1) /\ Matched(2)
    /\ After(1).selected # ddlog[1].before.selected
    /\ Len(widget.events) = 6

\* C25: every call of fill that reaches the classification detects exactly
\* one kind for the element as it is at that call, in the order Native,
\* FrameworkManagedSelect, AriaCombobox, Unknown; an element of kind Unknown
\* goes to fillNative, which returns false for it and leaves the element as
\* it was, with no event dispatched.
C25_KindAtEachCall ==
    \A i \in DOMAIN ddlog :
        ddlog[i].value # NoText =>
            LET w == ddlog[i].before
                hint == w.cls # "none"
                aria == w.role # "none"
            IN  /\ ddlog[i].type = "native" <=> w.tag = "SELECT"
                /\ ddlog[i].type = "react-select" <=> (w.tag # "SELECT" /\ hint)
                /\ ddlog[i].type = "aria-combobox" <=>
                       (w.tag # "SELECT" /\ ~hint /\ aria)
                /\ ddlog[i].type = "unknown" <=>
                       (w.tag # "SELECT" /\ ~hint /\ ~aria)
                /\ ddlog[i].type = "unknown" =>
                       /\ ddlog[i].result = "false"
                       /\ After(i) = w

\* an element that was of kind Unknown at the first call and, re-rendered
\* inside a select wrapper, of kind FrameworkManagedSelect at the second
C25_Witness ==
    /\ Len(ddlog) = 2
    /\ ddlog[1].type = "unknown" /\ ddlog[1].result = "false"
    /\ ddlog[2].type = "react-select"
    /\ ddlog[2].before.tag = ddlog[1].before.tag

PopupCall(i) ==
    /\ Done(i)
    /\ ddlog[i].type \in {"react-select", "aria-combobox"}

\* the options in the document when call i scans them
RenderedAt(i) ==
    LET w == ddlog[i].before
    IN  IF ~w.opens THEN {}
        ELSE IF ddlog[i].type = "react-select" /\ w.input
        THEN {j \in DOMAIN w.options :
                includes(toLowerCase(w.options[j].text), toLowerCase(ddlog[i].value))}
        ELSE DOMAIN w.options

ExactAt(i) ==
    {j \in RenderedAt(i) :
        toLowerCase(ddlog[i].before.options[j].text) = toLowerCase(ddlog[i].value)}

PartialAt(i) ==
    {j \in RenderedAt(i) :
        \/ includes(toLowerCase(ddlog[i].before.options[j].text), toLowerCase(ddlog[i].value))
        \/ includes(toLowerCase(ddlog[i].value), toLowerCase(ddlog[i].before.options[j].text))}

\* C30 (as claimed): when a rendered option's text equals the target, the
\* popup strategies click an option whose text equals the target, also when
\* an earlier option contains the target as a substring.
C30_PopupPrefersExact ==
    \A i \in DOMAIN ddlog :
        (PopupCall(i) /\ ExactAt(i) # {}) =>
            /\ ddlog[i].result = "true"
            /\ ddlog[i].chose \in ExactAt(i)

\* C30 (amended): the popup strategies click the first rendered option, in
\* document order, whose text contains the target or is contained in it;
\* an option whose text equals the target is clicked only when no earlier
\* rendered option matches in either direction. With none rendered that
\* matches they click no option and return false.
C30_PopupClicksFirstPartial ==
    \A i \in DOMAIN ddlog :
        PopupCall(i) =>
            IF PartialAt(i) = {}
            THEN ddlog[i].result = "false" /\ ddlog[i].chose = 0
                 /\ After(i).selected = ddlog[i].before.selected
            ELSE /\ ddlog[i].result = "true"
                 /\ ddlog[i].chose = Min(PartialAt(i))
                 /\ After(i).selected = Min(PartialAt(i))

\* options Female, MALE with target Male: Female was clicked
C30_Witness ==
    \E i \in DOMAIN ddlog :
        /\ PopupCall(i)
        /\ ddlog[i].type = "react-select"
        /\ ExactAt(i) # {}
        /\ ddlog[i].chose \notin ExactAt(i)
        /\ ddlog[i].chose # 0
        /\ ddlog[i].before.options[ddlog[i].chose].text = O_female.text


\* C32 (as claimed): for a non-empty target, a fill never selects or clicks
\* an option whose text is empty unless that option's value equals the
\* target.
C32_NeverEmptyTextOption ==
    \A i \in DOMAIN ddlog :
        (Done(i) /\ ddlog[i].value # NoText /\ ddlog[i].chose # 0) =>
            \/ ddlog[i].before.options[ddlog[i].chose].text # NoText
            \/ toLowerCase(ddlog[i].before.options[ddlog[i].chose].value)
                   = toLowerCase(ddlog[i].value)

(***************************************************************************)
(* SpecDemog: one Greenhouse page and the dropdown section of runAutoFill. *)
(*   demog.form, demog.file  the page holds a form, a file input           *)
(*   demog.basic    what the text fields of a pass add to filledCount      *)
(*                  (the fillField calls before the dropdown section; their *)
(*                  retry chains are the subject of SpecFill)              *)
(*   demog.fields[slot]  the element findField returned for the slot: a    *)
(*                  select, an input, or the element a matching label      *)
(*                  names in its for attribute; safe: markSafe was called  *)
(* gruns[c]: the latest runAutoFill of pass chain c                        *)
(*   n, attempt     invocations of the chain so far, the latest attempt    *)
(*   by             "load": started by the script; "listener": by the      *)
(*                  click listener                                         *)
(*   pc             "scheduled", "polled" (left at the form check),        *)
(*                  "awaiting" (inside await DF.fill), "decided"           *)
(*   i, dtype, dpc  the dropdown field awaited, the strategy of the call   *)
(*                  and its position ("opened", "typed")                   *)
(*   results[slot]  what DF.fill returned for the slot, "none" before      *)
(* gtimers: kind "pass": runAutoFill(a) of chain b; kind "sleep": the      *)
(* sleep inside the DF.fill call of chain a.                               *)
(***************************************************************************)
MaxChains == 2    \* pass chains on the page

\* Profile.race
T_Asian == <<"A", "s", "i", "a", "n">>

O_asian == Opt(<<"3">>, <<"A", "s", "i", "a", "n">>)

AriaOpenWait == 300

\* the dropdown fields of the Greenhouse pass in their declared order
DemogFields ==
    <<"gender", "race", "ethnicity", "veteran", "disability",
      "workAuthorization", "sponsorship">>

\* the dropdown fields a page of the model may hold
DemogSlots == {"gender", "race"}

\* Profile[slot] for the fields a page may hold
DemogProfile(slot) == IF slot = "gender" THEN T_Male ELSE T_Asian

HitOption(slot) == IF slot = "gender" THEN O_male ELSE O_asian

DemogWidgets(slot) ==
    {Widget("SELECT", "none", "none", <<O_other, HitOption(slot)>>, FALSE, FALSE),
     Widget("SELECT", "none", "none", <<O_other>>, FALSE, FALSE),
     Widget("INPUT", "closest", "none", <<HitOption(slot)>>, TRUE, TRUE),
     Widget("INPUT", "closest", "none", <<O_other>>, TRUE, FALSE),
     Widget("INPUT", "none", "combobox", <<HitOption(slot)>>, TRUE, FALSE),
     Widget("INPUT", "none", "combobox", <<HitOption(slot)>>, FALSE, FALSE),
     Widget("BUTTON", "none", "combobox", <<HitOption(slot)>>, TRUE, FALSE)}

NoField == [present |-> FALSE, w |-> [tag |-> "none"], safe |-> FALSE]

DemogPages ==
    {[form |-> f, file |-> fi, basic |-> b, fields |-> fs] :
        f \in BOOLEAN, fi \in BOOLEAN, b \in {0, 1},
        fs \in {g \in [DemogSlots -> {NoField} \cup
                        {[present |-> TRUE, w |-> w, safe |-> FALSE] :
                            w \in UNION {DemogWidgets(sl) : sl \in DemogSlots}}] :
                    \A sl \in DemogSlots :
                        g[sl].present => g[sl].w \in DemogWidgets(sl)}}

NewRun(by) ==
    [n |-> 0, attempt |-> 0, by |-> by, pc |-> "scheduled", i |-> 0,
     dtype |-> "none", dpc |-> "none", filled |-> 0, marked |-> {},
     results |-> [sl \in DemogSlots |-> "none"], flagged |-> FALSE,
     toasts |-> <<>>]

\* e.target.tagName === 'BUTTON' || e.target.closest('button')
IsButtonLike(w) == w.tag = "BUTTON"

ClickListener_TrustedOnly(st, target) == st

\* the handler's click listener, reached by a click on target
ClickListener(st, target) ==
    IF IsButtonLike(target)
    THEN [st EXCEPT !.timers = SetTimeout(@, Timer(ClickDelay("greenhouse"), "pass",
                                                  1, Len(st.runs) + 1, 0)),
                    !.runs = Append(@, NewRun("listener"))]
    ELSE st

\* the resume section and the decision at the end of the pass of chain c
GFinish(st, c) ==
    LET run == st.runs[c]
    IN  IF run.filled > 0
        THEN [st EXCEPT !.runs[c].pc = "decided", !.runs[c].flagged = demog.file,
                        !.runs[c].toasts = Append(@, "success")]
        ELSE IF ShouldRepoll(run.filled, run.attempt, "greenhouse")
        THEN [st EXCEPT !.runs[c].pc = "decided", !.runs[c].flagged = demog.file,
                        !.timers = SetTimeout(@, Timer(PollDelay, "pass",
                                                       run.attempt + 1, c, 0))]
        ELSE [st EXCEPT !.runs[c].pc = "decided", !.runs[c].flagged = demog.file,
                        !.runs[c].toasts = Append(@, "failure")]

\* if (await DF.fill(field, value)) { filledCount++; VF.markSafe(field); }
Counted(st, c, slot, result) ==
    IF result = "true"
    THEN [st EXCEPT !.runs[c].results[slot] = result,
                    !.runs[c].filled = @ + 1,
                    !.runs[c].marked = @ \cup {slot},
                    !.fields[slot].safe = TRUE]
    ELSE [st EXCEPT !.runs[c].results[slot] = result]

RECURSIVE Continue_AbortOnFailure(_, _, _)
Continue_AbortOnFailure(st, c, i) ==
    IF \E sl \in DemogSlots : st.runs[c].results[sl] = "false"
    THEN [st EXCEPT !.runs[c].pc = "decided"]
    ELSE IF i > Len(DemogFields) THEN GFinish(st, c)
    ELSE IF DemogFields[i] \notin DemogSlots \/ ~st.fields[DemogFields[i]].present
    THEN Continue_AbortOnFailure(st, c, i + 1)
    ELSE Pick({
        IF type \in {"native", "unknown"}
        THEN Pick({Continue_AbortOnFailure(
                       Counted([st EXCEPT !.fields[DemogFields[i]].w = r.el],
                               c, DemogFields[i], r.result), c, i + 1) :
                   r \in {fillNative(st.fields[DemogFields[i]].w,
                                     DemogProfile(DemogFields[i]))}})
        ELSE [ClickListener(st, st.fields[DemogFields[i]].w) EXCEPT
                 !.fields[DemogFields[i]].w =
                     OpenPopup(@, IF type = "react-select" THEN <<"click">>
                                  ELSE <<"click", "focus">>),
                 !.runs[c].pc = "awaiting", !.runs[c].i = i,
                 !.runs[c].dtype = type, !.runs[c].dpc = "opened",
                 !.timers = SetTimeout(@, Timer(IF type = "react-select"
                                                THEN PopupOpenWait ELSE AriaOpenWait,
                                                "sleep", c, 0, 0))] :
        type \in {detectType(st.fields[DemogFields[i]].w)}})

\* the pass of chain c from its i-th dropdown field on, up to its next
\* await or to its end
RECURSIVE Continue(_, _, _)
Continue(st, c, i) ==
    IF i > Len(DemogFields) THEN GFinish(st, c)
    ELSE IF DemogFields[i] \notin DemogSlots \/ ~st.fields[DemogFields[i]].present
    THEN Continue(st, c, i + 1)
    ELSE Pick({
        IF type \in {"native", "unknown"}
        THEN Pick({Continue(Counted([st EXCEPT !.fields[DemogFields[i]].w = r.el],
                                    c, DemogFields[i], r.result), c, i + 1) :
                   r \in {fillNative(st.fields[DemogFields[i]].w,
                                     DemogProfile(DemogFields[i]))}})
        ELSE [ClickListener(st, st.fields[DemogFields[i]].w) EXCEPT
                 !.fields[DemogFields[i]].w =
                     OpenPopup(@, IF type = "react-select" THEN <<"click">>
                                  ELSE <<"click", "focus">>),
                 !.runs[c].pc = "awaiting", !.runs[c].i = i,
                 !.runs[c].dtype = type, !.runs[c].dpc = "opened",
                 !.timers = SetTimeout(@, Timer(IF type = "react-select"
                                                THEN PopupOpenWait ELSE AriaOpenWait,
                                                "sleep", c, 0, 0))] :
        type \in {detectType(st.fields[DemogFields[i]].w)}})

\* a pass timer fires: runAutoFill(attempt) of chain c
GRunPass ==
    /\ gtimers # <<>>
    /\ gtimers[1].kind = "pass"
    /\ LET attempt == gtimers[1].a
           c == gtimers[1].b
           fresh == [NewRun(gruns[c].by) EXCEPT !.n = gruns[c].n + 1,
                                                !.attempt = attempt]
       IN  IF ~demog.form /\ attempt < MAX_ATTEMPTS_Greenhouse
           THEN /\ gtimers' = SetTimeout(Elapse(gtimers),
                                         Timer(PollDelay, "pass", attempt + 1, c, 0))
                /\ gruns' = [gruns EXCEPT ![c] = [fresh EXCEPT !.pc = "polled"]]
                /\ UNCHANGED demog
           ELSE \E st \in {Continue([fields |-> demog.fields,
                                     timers |-> Elapse(gtimers),
                                     runs |-> [gruns EXCEPT ![c] =
                                               [fresh EXCEPT !.filled = demog.basic]]],
                                    c, 1)} :
                  /\ Len(st.runs) <= MaxChains
                  /\ demog' = [demog EXCEPT !.fields = st.fields]
                  /\ gruns' = st.runs
                  /\ gtimers' = st.timers
    /\ UNCHANGED <<injVars, fillVars, findVars, detVars, ddVars, toastVars, moreVars>>

\* a sleep inside DF.fill ends: the call of chain c goes on
GWake ==
    /\ gtimers # <<>>
    /\ gtimers[1].kind = "sleep"
    /\ LET c == gtimers[1].a
           run == gruns[c]
           slot == DemogFields[run.i]
           w == demog.fields[slot].w
           st0 == [fields |-> demog.fields, timers |-> Elapse(gtimers), runs |-> gruns]
       IN  \E st \in {
             IF run.dtype = "react-select" /\ run.dpc = "opened" /\ w.input
             THEN [st0 EXCEPT !.fields[slot].w = TypeFilter(w),
                              !.runs[c].dpc = "typed",
                              !.timers = SetTimeout(@, Timer(PopupFilterWait, "sleep", c, 0, 0))]
             ELSE Pick({Continue(Counted([st0 EXCEPT !.fields[slot].w = r.el,
                                                     !.runs[c].pc = "running"],
                                         c, slot, r.result), c, run.i + 1) :
                        r \in {IF run.dtype = "react-select"
                               THEN ScanAndClick(w, DemogProfile(slot), <<"bodyClick">>)
                               ELSE AriaScanStep(w, DemogProfile(slot))}})} :
             /\ Len(st.runs) <= MaxChains
             /\ demog' = [demog EXCEPT !.fields = st.fields]
             /\ gruns' = st.runs
             /\ gtimers' = st.timers
    /\ UNCHANGED <<injVars, fillVars, findVars, detVars, ddVars, toastVars, moreVars>>

DemogInit ==
    /\ demog \in DemogPages
    /\ gruns = <<NewRun("load")>>
    /\ gtimers = <<Timer(StartDelay("greenhouse"), "pass", 1, 1, 0)>>
    /\ el = Plain /\ hist = <<>>
    /\ FillIdle
    /\ FindIdle
    /\ DetectIdle
    /\ DropdownIdle
    /\ ToastIdle
    /\ MoreIdle

DemogNext ==
    \/ GRunPass
    \/ GWake

\* the Greenhouse page with no user click after load
SpecDemog == DemogInit /\ [][DemogNext]_vars

(***************************************************************************)
(* Properties of the dropdown section of the Greenhouse pass.              *)
(***************************************************************************)
Succeeded(c) == {sl \in DemogSlots : gruns[c].results[sl] = "true"}

\* the widget of the slot cannot be filled: its popup or listbox is not
\* rendered, or no option matches the profile value in either direction
CannotFill(sl) ==
    /\ demog.fields[sl].present
    /\ \/ demog.fields[sl].w.tag # "SELECT" /\ ~demog.fields[sl].w.opens
       \/ \A j \in DOMAIN demog.fields[sl].w.options :
            PassOf(demog.fields[sl].w.options[j], toLowerCase(DemogProfile(sl))) = 5

C27_NoSelfTriggeredPass ==
    /\ Len(gruns) = 1
    /\ \A c \in DOMAIN gruns :
          gruns[c].by = "load" /\ gruns[c].n <= MAX_ATTEMPTS_Greenhouse


(***************************************************************************)
(* SpecToast: the toast element (#sja-toast) and VisualFeedback.showToast. *)
(*   toast.exists    the element is in the document                        *)
(*   toast.message   the call of showToast whose message it shows          *)
(*   toast.type      the type that set its background colour               *)
(*   toast.opacity   style.opacity                                         *)
(*   toast.hiddenBy  the call of showToast whose timer last set opacity 0  *)
(*   toast.calls     calls of showToast so far                             *)
(*   toast.timers    pending hide timers, earliest first; due: time left,  *)
(*                   a: the call that scheduled it                         *)
(***************************************************************************)
MaxToasts == 3      \* calls of showToast on the page

ToastHideDelay == 3000

ToastTypes == {"info", "success", "warning"}

\* the time between a call of showToast and the event before it
ToastGaps == {0, 500, 1000, 2500, 3000}

\* the timers dt later
Later(ts, dt) == [k \in DOMAIN ts |-> [ts[k] EXCEPT !.due = @ - dt]]

HideTimer_CancelEarlier(ts, call) == <<Timer(ToastHideDelay, "hide", call, 0, 0)>>

\* setTimeout(() => { toast.style.opacity = '0'; }, 3000)
HideTimer(ts, call) == SetTimeout(ts, Timer(ToastHideDelay, "hide", call, 0, 0))

\* VisualFeedback.showToast(message, type), dt after the event before it
ShowToast(type, dt) ==
    /\ toast.calls < MaxToasts
    /\ toast.timers # <<>> => dt < toast.timers[1].due
    /\ toast' = [toast EXCEPT !.exists = TRUE,
                              !.type = type,
                              !.message = toast.calls + 1,
                              !.opacity = 1,
                              !.calls = @ + 1,
                              !.timers = HideTimer(Later(@, dt), toast.calls + 1)]
    /\ UNCHANGED <<injVars, fillVars, findVars, detVars, ddVars, demogVars, moreVars>>

\* the earliest hide timer fires
HideToast ==
    /\ toast.timers # <<>>
    /\ toast' = [toast EXCEPT !.opacity = 0,
                              !.hiddenBy = toast.timers[1].a,
                              !.timers = Elapse(@)]
    /\ UNCHANGED <<injVars, fillVars, findVars, detVars, ddVars, demogVars, moreVars>>

ToastInit ==
    /\ ToastIdle
    /\ el = Plain /\ hist = <<>>
    /\ FillIdle
    /\ FindIdle
    /\ DetectIdle
    /\ DropdownIdle
    /\ DemogIdle
    /\ MoreIdle

ToastNext ==
    \/ \E type \in ToastTypes, dt \in ToastGaps : ShowToast(type, dt)
    \/ HideToast

SpecToast == ToastInit /\ [][ToastNext]_vars

(***************************************************************************)
(* Properties of the toast.                                                *)
(***************************************************************************)
\* C28 (as claimed): a message is hidden only by the hide timer of the call
\* that displayed it: whenever the toast is hidden, it was hidden by the
\* timer of the call whose message it shows.
C28_HiddenByOwnTimer ==
    (toast.exists /\ toast.opacity = 0) => toast.hiddenBy = toast.message


(***************************************************************************)
(* Properties of the Taleo login wall.                                     *)
(***************************************************************************)
\* the latest invocation of pass chain pc detected the login wall
SawLoginWall(pc) == passes[pc].toasts # <<>> /\ passes[pc].toasts[1] = "login"

\* C33 (as claimed): an invocation of runAutoFill that detects the login
\* wall stops there, at every attempt number: it attempts no field, flags
\* nothing and schedules no further pass.
C33_LoginWallStops ==
    \A pc \in DOMAIN passes :
        SawLoginWall(pc) =>
            /\ passes[pc].status = "loginwall"
            /\ passes[pc].attempted = {}
            /\ ~passes[pc].flagged
            /\ PendingPasses(pc) = {}

(***************************************************************************)
(* Properties of passes and retry ticks over fields the user has edited.   *)
(***************************************************************************)
\* the field holds what the user typed
Edited(slot) == dom[slot].present /\ dom[slot].e.value = UserValue

\* tryFill ran on the slot in this step: as the first call of a chain that
\* a pass started by the click listener opened, or as a retry tick
TryFillRan(slot) ==
    \E c \in DOMAIN chains' :
        /\ chains'[c].slot = slot
        /\ IF c \in DOMAIN chains
           THEN chains'[c].ticks > chains[c].ticks
           ELSE chains'[c].pc > 1

\* C29 (as claimed): a pass started by the click listener, and a retry
\* tick, whose tryFill finds a located field holding a value the user typed
\* leaves the field holding the profile value.
C29_UserEditReplacedByProfile ==
    [][\A slot \in PageSlots :
          (Edited(slot) /\ TryFillRan(slot)) => dom'[slot].e.value = Profile(slot)]_vars

(***************************************************************************)
(* SpecPopup: one call of a popup strategy on a widget in a document that  *)
(* holds option elements of its own and of others.                         *)
(*   pop.kind      "react-select" or "aria-combobox"                       *)
(*   pop.items     the option-marked elements of the document, in document *)
(*                 order ([class*="option"], [role="option"]); owner is    *)
(*                 "own" for the options of the widget being filled (in    *)
(*                 the document only while its popup is open), "other" for *)
(*                 the options of another widget's list, "page" for an     *)
(*                 element outside any list                                *)
(*   pop.controls  what aria-controls / aria-owns names: "own" the         *)
(*                 widget's listbox, "none" no such attribute              *)
(*   pop.otherHidden  the other widget's listbox carries the hidden        *)
(*                 attribute                                               *)
(*   pop.opens     a click renders the widget's own options                *)
(*   pop.input     the container holds a filter input                      *)
(*   pop.popup     "closed", "open", "filtered"                            *)
(*   pop.pc        "idle", "opened", "typed", "done"                       *)
(*   pop.clicked   the element option.click() was called on, 0 for none    *)
(***************************************************************************)
MaxItems == 3     \* option-marked elements in the document

Item(owner, text) == [owner |-> owner, text |-> text]

ItemPool ==
    {Item("own", O_male.text), Item("own", O_female.text),
     Item("other", O_male.text), Item("other", O_other.text),
     Item("page", O_m.text)}

PopupDocs ==
    { [kind |-> k, items |-> q, controls |-> c, otherHidden |-> h, opens |-> o,
       input |-> i, popup |-> "closed", pc |-> "idle", value |-> NoText,
       clicked |-> 0, result |-> "none"] :
        k \in {"react-select", "aria-combobox"}, q \in Arrangements(ItemPool, MaxItems),
        c \in {"own", "none"}, h \in BOOLEAN, o \in BOOLEAN, i \in BOOLEAN }

\* the option-marked elements in the document at the scan
InDocument(p, term) ==
    {i \in DOMAIN p.items :
        \/ p.items[i].owner # "own"
        \/ p.popup = "open"
        \/ p.popup = "filtered" /\ includes(toLowerCase(p.items[i].text), term)}

Matches(p, i, term) ==
    \/ includes(toLowerCase(p.items[i].text), term)
    \/ includes(term, toLowerCase(p.items[i].text))

\* document.querySelectorAll('[class*="option"]')
ReactOptions(p, term) == InDocument(p, term)

\* the widget's own listbox is in the document while its popup is open
OwnListbox(p) == p.popup # "closed"

\* the first option of a list in the document, 0 when it has none there
FirstOf(p, term, owner) == Find({i \in InDocument(p, term) : p.items[i].owner = owner})

\* document.querySelector('[role="listbox"]:not([hidden])'): the first
\* listbox in document order without the hidden attribute. A listbox stands
\* where its first option stands; the widget's own listbox without options
\* stands at the end of the document.
VisibleListbox(p, term) ==
    IF /\ FirstOf(p, term, "other") # 0
       /\ ~p.otherHidden
       /\ \/ ~OwnListbox(p)
          \/ FirstOf(p, term, "own") = 0
          \/ FirstOf(p, term, "other") < FirstOf(p, term, "own")
    THEN "other"
    ELSE IF OwnListbox(p) THEN "own" ELSE "none"

\* listboxId ? document.getElementById(listboxId) : null, then the fallback
ResolveListbox(p, term) ==
    IF p.controls = "own" /\ OwnListbox(p) THEN "own" ELSE VisibleListbox(p, term)

\* listbox.querySelectorAll('[role="option"]')
AriaOptions(p, term) ==
    {i \in InDocument(p, term) : p.items[i].owner = ResolveListbox(p, term)}

\* the scan loop: option.click() on the first match
PopScan(p, options, term) ==
    Pick({IF m = 0
          THEN [p EXCEPT !.pc = "done", !.result = "false", !.popup = "closed"]
          ELSE [p EXCEPT !.pc = "done", !.result = "true", !.clicked = m,
                         !.popup = "closed"] :
          m \in {Find({i \in options : Matches(p, i, term)})}})

\* fillReactSelect / fillARIACombobox up to the first sleep
PopOpen(value) ==
    /\ pop.kind # "none"
    /\ pop.pc = "idle"
    /\ pop' = [pop EXCEPT !.pc = "opened", !.value = value,
                          !.popup = IF pop.opens THEN "open" ELSE "closed"]
    /\ UNCHANGED <<oldVars, bootVars, upVars, qsVars>>

\* this.setNativeValue(input, value) of fillReactSelect
PopType ==
    /\ pop.kind = "react-select"
    /\ pop.pc = "opened"
    /\ pop.input
    /\ pop' = [pop EXCEPT !.pc = "typed",
                          !.popup = IF @ = "open" THEN "filtered" ELSE @]
    /\ UNCHANGED <<oldVars, bootVars, upVars, qsVars>>

\* the scan of fillReactSelect
PopReactScan ==
    /\ pop.kind = "react-select"
    /\ \/ pop.pc = "typed"
       \/ pop.pc = "opened" /\ ~pop.input
    /\ \E term \in {toLowerCase(pop.value)} :
         pop' = PopScan(pop, ReactOptions(pop, term), term)
    /\ UNCHANGED <<oldVars, bootVars, upVars, qsVars>>

\* the listbox lookup and the scan of fillARIACombobox
PopAriaScan ==
    /\ pop.kind = "aria-combobox"
    /\ pop.pc = "opened"
    /\ \E term \in {toLowerCase(pop.value)} :
         pop' = IF ResolveListbox(pop, term) = "none"
                THEN [pop EXCEPT !.pc = "done", !.result = "false"]
                ELSE PopScan(pop, AriaOptions(pop, term), term)
    /\ UNCHANGED <<oldVars, bootVars, upVars, qsVars>>

PopupInit ==
    /\ pop \in PopupDocs
    /\ el = Plain /\ hist = <<>>
    /\ FillIdle
    /\ FindIdle
    /\ DetectIdle
    /\ DropdownIdle
    /\ DemogIdle
    /\ ToastIdle
    /\ BootIdle /\ UpIdle /\ QsIdle

PopupNext ==
    \/ \E value \in DDTargets : PopOpen(value)
    \/ PopType
    \/ PopReactScan
    \/ PopAriaScan

SpecPopup == PopupInit /\ [][PopupNext]_vars

(***************************************************************************)
(* Properties of the popup scan over the document.                         *)
(***************************************************************************)
\* C31 (as claimed): the option a popup strategy clicks is an option of the
\* widget being filled.
C31_ClicksOwnOption ==
    pop.kind # "none" /\ pop.clicked # 0 => pop.items[pop.clicked].owner = "own"

(***************************************************************************)
(* SpecBoot: the head of the Taleo content script across page loads.       *)
(*   boot.profile  window.SmartJobApply is defined when the script runs in *)
(*                 this load of the page (constants.js ran before it in    *)
(*                 this frame)                                             *)
(*   boot.state    "loading"  the page is loading, the script has not run  *)
(*                 "waiting"  the script scheduled a reload and returned   *)
(*                 "started"  the script went on to the handler            *)
(*   boot.reloads  window.location.reload() calls so far, counted up to    *)
(*                 MaxReloads; the script keeps no count of its own, and   *)
(*                 nothing of it survives a reload                         *)
(***************************************************************************)
MaxReloads == 60    \* reloads counted

ReloadDelay == 1000

Load(profile, reloads) ==
    [script |-> "taleo", profile |-> profile, state |-> "loading",
     reloads |-> reloads, timers |-> <<>>]

\* const { Profile, Mappings } = window.SmartJobApply || {};
\* if (!Profile) { setTimeout(() => window.location.reload(), 1000); return; }
TaleoScript ==
    /\ boot.script = "taleo"
    /\ boot.state = "loading"
    /\ boot' = IF boot.profile
               THEN [boot EXCEPT !.state = "started"]
               ELSE [boot EXCEPT !.state = "waiting",
                                 !.timers = SetTimeout(@, Timer(ReloadDelay, "reload", 0, 0, 0))]
    /\ UNCHANGED <<oldVars, popVars, upVars, qsVars>>

\* the timer fires: window.location.reload(). The page loads again and the
\* content scripts run again; whether constants.js has defined
\* window.SmartJobApply by then is the environment's.
ReloadPage ==
    /\ boot.script = "taleo"
    /\ boot.timers # <<>>
    /\ \E profile \in BOOLEAN :
         boot' = Load(profile, IF boot.reloads < MaxReloads THEN boot.reloads + 1
                               ELSE boot.reloads)
    /\ UNCHANGED <<oldVars, popVars, upVars, qsVars>>

BootInit ==
    /\ \E profile \in BOOLEAN : boot = Load(profile, 0)
    /\ el = Plain /\ hist = <<>>
    /\ FillIdle
    /\ FindIdle
    /\ DetectIdle
    /\ DropdownIdle
    /\ DemogIdle
    /\ ToastIdle
    /\ PopIdle /\ UpIdle /\ QsIdle

BootNext == TaleoScript \/ ReloadPage

SpecBoot == BootInit /\ [][BootNext]_vars

\* scripts run and timers fire
SpecBootFair == SpecBoot /\ WF_vars(TaleoScript) /\ WF_vars(ReloadPage)

(***************************************************************************)
(* Properties of the reload-and-retry at the head of the Taleo script.     *)
(***************************************************************************)
\* C34 (as claimed): the reload-and-retry ends: the script eventually goes
\* on to the handler or gives up reloading.
C34_ReloadRetryEnds ==
    <>(boot.state = "started" \/ (boot.state = "waiting" /\ boot.timers = <<>>))

(***************************************************************************)
(* SpecUpload: the file inputs of the page and the runs of                 *)
(* ResumeUploader.detectAndSetup.                                          *)
(*   up.inputs     the file inputs in document order: resume (its label,   *)
(*                 name or placeholder names a resume), marked (it carries *)
(*                 data-smartjob-injected), controls (button containers    *)
(*                 inserted after it)                                      *)
(*   up.runs       the runs of detectAndSetup: snap is the NodeList of its *)
(*                 query, at the position of the input it is working on,   *)
(*                 pc "await" (suspended in addAutoUploadButton at the     *)
(*                 chrome.storage read), "inserted" (the controls are in,  *)
(*                 the loop has not continued), "done"                     *)
(*   up.started    init() has been called                                  *)
(*   up.observing  observer.observe has been called                        *)
(*   up.records    the observer holds undelivered records with added nodes *)
(***************************************************************************)
MaxInputs == 3    \* file inputs on the page
MaxUpRuns == 3    \* runs of detectAndSetup

FileInput(resume) == [resume |-> resume, marked |-> FALSE, controls |-> 0]

UploadPages ==
    UNION {[1..n -> {FileInput(TRUE), FileInput(FALSE)}] : n \in 0..MaxInputs}

\* document.querySelectorAll('input[type="file"]:not([data-smartjob-injected])')
Unprocessed(u) ==
    SelectSeq([i \in DOMAIN u.inputs |-> i], LAMBDA i : ~u.inputs[i].marked)

\* the resume inputs of the snapshot from position k on
ResumeFrom(u, r, k) ==
    {j \in DOMAIN u.runs[r].snap : j >= k /\ u.inputs[u.runs[r].snap[j]].resume}

\* for (const input of fileInputs) { ... if (labelText.includes('resume') ...
NextInput(u, r, k) == ResumeFrom(u, r, k)

\* the loop of run r from position k of its snapshot up to the next await:
\* addAutoUploadButton marks the input and suspends at the storage read.
\* When the run awaited by init() ends, init() goes on to observer.observe.
Advance(u, r, k) ==
    IF NextInput(u, r, k) = {}
    THEN [u EXCEPT !.runs[r].pc = "done",
                   !.observing = @ \/ u.runs[r].init]
    ELSE [u EXCEPT !.runs[r].pc = "await",
                   !.runs[r].at = Min(NextInput(u, r, k)),
                   !.inputs[u.runs[r].snap[Min(NextInput(u, r, k))]].marked = TRUE]

\* detectAndSetup() up to its first await
StartRun(u, init) ==
    Advance([u EXCEPT !.runs = Append(@, [snap |-> Unprocessed(u), at |-> 0,
                                          pc |-> "start", init |-> init])],
            Len(u.runs) + 1, 1)

\* init(): await uploader.detectAndSetup()
InitUploader ==
    /\ "started" \in DOMAIN up
    /\ ~up.started
    /\ up' = StartRun([up EXCEPT !.started = TRUE], TRUE)
    /\ UNCHANGED <<oldVars, popVars, bootVars, qsVars>>

\* the storage read of run r answers: addAutoUploadButton inserts the
\* controls after the input (the button container, or the manual helper
\* when there is no current job) and returns
InsertControls(r) ==
    /\ "started" \in DOMAIN up
    /\ r \in DOMAIN up.runs
    /\ up.runs[r].pc = "await"
    /\ up' = [up EXCEPT !.inputs[up.runs[r].snap[up.runs[r].at]].controls = @ + 1,
                        !.runs[r].pc = "inserted",
                        !.records = @ \/ up.observing]
    /\ UNCHANGED <<oldVars, popVars, bootVars, qsVars>>

\* the loop of run r continues after await this.addAutoUploadButton(input).
\* The observer's callback for the insertion is a microtask queued before
\* the continuation of the loop, so it runs first.
ContinueRun(r) ==
    /\ "started" \in DOMAIN up
    /\ r \in DOMAIN up.runs
    /\ up.runs[r].pc = "inserted"
    /\ ~up.records
    /\ up' = Advance(up, r, up.runs[r].at + 1)
    /\ UNCHANGED <<oldVars, popVars, bootVars, qsVars>>

\* the MutationObserver callback: if (shouldCheck) uploader.detectAndSetup()
ObserverCallback ==
    /\ "started" \in DOMAIN up
    /\ up.records
    /\ Len(up.runs) < MaxUpRuns
    /\ up' = StartRun([up EXCEPT !.records = FALSE], FALSE)
    /\ UNCHANGED <<oldVars, popVars, bootVars, qsVars>>

\* the page adds a file input (a single-page application renders a form)
PageAddsInput(resume) ==
    /\ "started" \in DOMAIN up
    /\ Len(up.inputs) < MaxInputs
    /\ up' = [up EXCEPT !.inputs = Append(@, FileInput(resume)),
                        !.records = @ \/ up.observing]
    /\ UNCHANGED <<oldVars, popVars, bootVars, qsVars>>

UploadInit ==
    /\ \E q \in UploadPages :
         up = [inputs |-> q, runs |-> <<>>, started |-> FALSE,
               observing |-> FALSE, records |-> FALSE]
    /\ el = Plain /\ hist = <<>>
    /\ FillIdle
    /\ FindIdle
    /\ DetectIdle
    /\ DropdownIdle
    /\ DemogIdle
    /\ ToastIdle
    /\ PopIdle /\ BootIdle /\ QsIdle

UploadNext ==
    \/ InitUploader
    \/ \E r \in 1..MaxUpRuns : InsertControls(r)
    \/ \E r \in 1..MaxUpRuns : ContinueRun(r)
    \/ ObserverCallback
    \/ \E resume \in BOOLEAN : PageAddsInput(resume)

SpecUpload == UploadInit /\ [][UploadNext]_vars

(***************************************************************************)
(* Properties of the uploader's controls.                                  *)
(***************************************************************************)
\* C35 (as claimed): each resume file input receives the uploader's
\* controls at most once.
C35_ControlsAtMostOnce ==
    \A i \in DOMAIN up.inputs : up.inputs[i].controls <= 1

(***************************************************************************)
(* SpecSolver: the QuestionSolver on a page whose textareas carry its      *)
(* button, the background relay and the native host.                       *)
(*   qs.areas       the textareas: value, cover (the question names a      *)
(*                  cover letter), btn (the button's state), events (input *)
(*                  and change events dispatched on it)                    *)
(*   qs.processing  QS.processing                                          *)
(*   qs.reqs        the messages sent, in order: area, action, stage       *)
(*                    "sent"       on its way to the background listener   *)
(*                    "native"     forwarded, the host has not replied     *)
(*                    "responded"  sendResponse was called                 *)
(*                    "closed"     the listener returned without keeping   *)
(*                                 the channel open                        *)
(*                    "delivered"  the callback of sendMessage has run     *)
(*                    "thrown"     sendMessage threw, no message was sent  *)
(*                  forwarded (sendNativeMessage was called), responses    *)
(*                  (calls of sendResponse), response                      *)
(*   qs.ignored     calls of solveQuestion that returned at the flag       *)
(*   qs.modal       the review modal: open, area, answer, editor           *)
(*   qs.alerts      alert() calls                                          *)
(*   qs.runs        the runs of typeAnswer, in order of start: area, text, *)
(*                  pos (characters typed), done, overlapped (another run  *)
(*                  on the same textarea was unfinished during this one)   *)
(***************************************************************************)
MaxAreas == 2        \* textareas with a button
MaxSolveCalls == 3   \* calls of solveQuestion
MaxInserts == 2      \* clicks on Insert

TypeChunk == 5

TA_old == <<"o", "l", "d">>
TA_answer == <<"A", "I">>
TA_edited == <<"m", "y">>

Area(value, cover) == [value |-> value, cover |-> cover, btn |-> "idle", events |-> <<>>]

SolverPages ==
    UNION {[1..n -> {Area(v, c) : v \in {NoText, TA_old}, c \in BOOLEAN}] : n \in 1..MaxAreas}

NoModal == [open |-> FALSE, area |-> 0, answer |-> NoText, editor |-> NoText]

Busy_Never(q) == FALSE

\* if (QS.processing) return;
Busy(q) == q.processing

\* action: isCoverLetter ? "generate_cover_letter" : "generate_answer"
ActionOf(a) == IF a.cover THEN "generate_cover_letter" ELSE "generate_answer"

Request(area, action, stage) ==
    [area |-> area, action |-> action, stage |-> stage, forwarded |-> FALSE,
     responses |-> 0, response |-> "none"]

InFlight(q) == {r \in DOMAIN q.reqs : q.reqs[r].stage \notin {"delivered", "thrown"}}

\* QS.solveQuestion(textarea, btn); sent is FALSE when chrome.runtime.sendMessage throws
solveQuestion(q, a, sent) ==
    IF Busy(q) THEN [q EXCEPT !.ignored = @ + 1]
    ELSE IF sent
    THEN [q EXCEPT !.processing = TRUE,
                   !.areas[a].btn = "thinking",
                   !.reqs = Append(@, Request(a, ActionOf(q.areas[a]), "sent"))]
    ELSE [q EXCEPT !.processing = FALSE,
                   !.areas[a].btn = "error",
                   !.reqs = Append(@, Request(a, ActionOf(q.areas[a]), "thrown"))]

\* btn.onclick
ClickSolve(a, sent) ==
    /\ a \in DOMAIN qs.areas
    /\ Len(qs.reqs) + qs.ignored < MaxSolveCalls
    /\ qs' = solveQuestion(qs, a, sent)
    /\ UNCHANGED <<oldVars, popVars, bootVars, upVars>>

\* chrome.runtime.onMessage listener of the background worker
Relay(req) ==
    IF req.action = "generate_answer"
    THEN [req EXCEPT !.stage = "native", !.forwarded = TRUE]   \* return true
    ELSE [req EXCEPT !.stage = "closed"]                       \* returns undefined

RelayReceives(r) ==
    /\ r \in DOMAIN qs.reqs
    /\ qs.reqs[r].stage = "sent"
    /\ qs' = [qs EXCEPT !.reqs[r] = Relay(@)]
    /\ UNCHANGED <<oldVars, popVars, bootVars, upVars>>

\* the callback of sendNativeMessage: sendResponse({ error }) when
\* chrome.runtime.lastError is set, else sendResponse(response); the host's
\* response carries an answer or an error
NativeReplies(r, out) ==
    /\ r \in DOMAIN qs.reqs
    /\ qs.reqs[r].stage = "native"
    /\ qs' = [qs EXCEPT !.reqs[r].stage = "responded",
                        !.reqs[r].responses = @ + 1,
                        !.reqs[r].response = out]
    /\ UNCHANGED <<oldVars, popVars, bootVars, upVars>>

\* QS.showReviewModal: an existing modal is removed, the editor holds the answer
showReviewModal(q, a, answer) ==
    [q EXCEPT !.modal = [open |-> TRUE, area |-> a, answer |-> answer, editor |-> answer]]

\* the callback of sendMessage in solveQuestion; a closed channel calls it
\* with an undefined response
Callback(r) ==
    /\ r \in DOMAIN qs.reqs
    /\ qs.reqs[r].stage \in {"responded", "closed"}
    /\ LET q1 == [qs EXCEPT !.processing = FALSE,
                            !.areas[qs.reqs[r].area].btn = "idle",
                            !.reqs[r].stage = "delivered"]
       IN  qs' = IF qs.reqs[r].response = "answer"
                 THEN showReviewModal(q1, qs.reqs[r].area, TA_answer)
                 ELSE [q1 EXCEPT !.alerts = @ + 1]
    /\ UNCHANGED <<oldVars, popVars, bootVars, upVars>>

\* the user edits the text in the modal's editor
EditModal(text) ==
    /\ "modal" \in DOMAIN qs
    /\ qs.modal.open
    /\ qs.modal.editor # text
    /\ qs' = [qs EXCEPT !.modal.editor = text]
    /\ UNCHANGED <<oldVars, popVars, bootVars, upVars>>

\* cancelBtn: overlay.remove()
Cancel ==
    /\ "modal" \in DOMAIN qs
    /\ qs.modal.open
    /\ qs' = [qs EXCEPT !.modal = NoModal]
    /\ UNCHANGED <<oldVars, popVars, bootVars, upVars>>

Unfinished(q, a) == {k \in DOMAIN q.runs : q.runs[k].area = a /\ ~q.runs[k].done}

\* the loop of typeAnswer of run k from its position up to the next await
\* (after the characters 0, 5, 10, ...), or to its end and the two events
TypeOn(q, k) ==
    LET run == q.runs[k]
        len == Len(run.text)
        upto == IF run.pos = 0 THEN (IF len = 0 THEN 0 ELSE 1)
                ELSE IF run.pos + TypeChunk < len THEN run.pos + TypeChunk ELSE len
        end == upto = len /\ (len = 0 \/ ((len - 1) % TypeChunk # 0) \/ run.pos = len)
    IN  [q EXCEPT !.areas[run.area].value = @ \o SubSeq(run.text, run.pos + 1, upto),
                  !.areas[run.area].events = IF end THEN @ \o <<"input", "change">> ELSE @,
                  !.runs[k].pos = upto,
                  !.runs[k].done = end]

InsertText_Answer(m) == m.answer

\* QS.typeAnswer(textarea, editor.value)
InsertText(m) == m.editor

\* QS.typeAnswer(element, text) up to its first await
typeAnswer(q, a, text) ==
    LET over == Unfinished(q, a) # {}
        q1 == [q EXCEPT !.areas[a].value = NoText,
                        !.runs = Append([k \in DOMAIN q.runs |->
                                            IF k \in Unfinished(q, a)
                                            THEN [q.runs[k] EXCEPT !.overlapped = TRUE]
                                            ELSE q.runs[k]],
                                        [area |-> a, text |-> text, pos |-> 0,
                                         done |-> FALSE, overlapped |-> over])]
    IN  TypeOn(q1, Len(q1.runs))

\* confirmBtn: QS.typeAnswer(textarea, editor.value); overlay.remove()
Insert ==
    /\ "modal" \in DOMAIN qs
    /\ qs.modal.open
    /\ Len(qs.runs) < MaxInserts
    /\ qs' = [typeAnswer(qs, qs.modal.area, InsertText(qs.modal)) EXCEPT !.modal = NoModal]
    /\ UNCHANGED <<oldVars, popVars, bootVars, upVars>>

\* the timer of a typing run fires
TypeResume(k) ==
    /\ k \in DOMAIN qs.runs
    /\ ~qs.runs[k].done
    /\ qs' = TypeOn(qs, k)
    /\ UNCHANGED <<oldVars, popVars, bootVars, upVars>>

SolverInit ==
    /\ \E q \in SolverPages :
         qs = [areas |-> q, processing |-> FALSE, reqs |-> <<>>, ignored |-> 0,
               modal |-> NoModal, alerts |-> 0, runs |-> <<>>]
    /\ el = Plain /\ hist = <<>>
    /\ FillIdle
    /\ FindIdle
    /\ DetectIdle
    /\ DropdownIdle
    /\ DemogIdle
    /\ ToastIdle
    /\ PopIdle /\ BootIdle /\ UpIdle

SolverNext ==
    \/ \E a \in 1..MaxAreas, sent \in BOOLEAN : ClickSolve(a, sent)
    \/ \E r \in 1..MaxSolveCalls : RelayReceives(r)
    \/ \E r \in 1..MaxSolveCalls, out \in {"answer", "error", "lastError"} : NativeReplies(r, out)
    \/ \E r \in 1..MaxSolveCalls : Callback(r)
    \/ \E text \in {TA_answer, TA_edited, NoText} : EditModal(text)
    \/ Cancel
    \/ Insert
    \/ \E k \in 1..MaxInserts : TypeResume(k)

SpecSolver == SolverInit /\ [][SolverNext]_vars

\* C36: at most one request of the QuestionSolver is in flight, the flag is
\* set exactly while one is, every request that was answered, refused or
\* thrown has left the flag to the next one, and a call of solveQuestion that
\* finds the flag set sends no message and changes no button.
C36_OneRequestInFlight ==
    [][/\ Cardinality(InFlight(qs)) <= 1
       /\ qs.processing <=> InFlight(qs) # {}
       /\ qs'.ignored > qs.ignored =>
            /\ qs.processing
            /\ qs'.reqs = qs.reqs
            /\ qs'.areas = qs.areas]_vars

\* a click was ignored while a request was in flight, and requests were
\* delivered with an answer, with an error and by a throw
C36_Witness ==
    /\ "ignored" \in DOMAIN qs
    /\ qs.ignored > 0
    /\ \E r \in DOMAIN qs.reqs : qs.reqs[r].stage = "thrown"
    /\ \E r \in DOMAIN qs.reqs : qs.reqs[r].stage = "delivered" /\ ~qs.processing

\* C37: every request the QuestionSolver's callback has been called for was
\* forwarded to the native host by the relay and answered by exactly one
\* call of sendResponse, whichever of the two actions it carries.
C37_ForwardedAndAnsweredOnce ==
    \A r \in DOMAIN qs.reqs :
        qs.reqs[r].stage = "delivered" =>
            /\ qs.reqs[r].forwarded
            /\ qs.reqs[r].responses = 1
            /\ qs.reqs[r].response \in {"answer", "error", "lastError"}

Values(q) == [a \in DOMAIN q.areas |-> q.areas[a].value]

ElementKinds == {"input", "select", "textarea"}

E_emailButton == Elem("button", "button", FALSE, NoText, NoText, NoText, Txt_f1, NoText)
E_emailSelect == Elem("select", "select-one", FALSE, NoText, Txt_email, NoText, Txt_h1, NoText)
E_emailArea == Elem("textarea", "textarea", FALSE, Txt_EmailAddress, NoText, NoText, NoText, NoText)

KindTemplates == {E_emailIdOnly, E_emailButton, E_emailSelect, E_emailArea}

KindDocs ==
    UNION {{[labels |-> ls, elements |-> Numbered(q)] :
                ls \in Arrangements(FindLabels(Len(q)), MaxLabels)} :
           q \in Arrangements(KindTemplates, MaxElems)}

KindInit ==
    /\ doc \in KindDocs
    /\ found = NoCall
    /\ ref = [state |-> "none"]
    /\ el = Plain /\ hist = <<>>
    /\ FillIdle
    /\ DetectIdle
    /\ UiIdle

KindNext == \E slot \in FindSlots, type \in ElementKinds : FindField(slot, type)

SpecKind == KindInit /\ [][KindNext]_vars

\* C39 (as claimed): an element returned by findField(keywords, kind) is an
\* element of that kind, whichever strategy found it.
C39_ReturnsRequestedKind ==
    (found.op = "findField" /\ found.result # 0) =>
        ByUid(doc, found.result).tag = found.type

=============================================================================
